---- MODULE Spec2Model ----
(***************************************************************************)
(* The autoinstall validators of shishi/ubuntu_autoinstall:                *)
(*   validate-commands.py, validate-autoinstall-strict.py,                 *)
(*   validate-step10-tpm-early.py, validate-yaml.py,                       *)
(*   validate-autoinstall.py.                                              *)
(* A text (str) is a sequence of one-character strings, so that strip,     *)
(* startswith, `in`, split, shlex.split and the regular expressions are    *)
(* computed on characters as Python computes them.                         *)
(***************************************************************************)
EXTENDS Integers, Sequences, FiniteSets, TLC

(***************************************************************************)
(* Bounds of the model.                                                    *)
(***************************************************************************)
MaxArgs == 2
MaxItems == 2

(***************************************************************************)
(* The state of one process: the validator script that runs (tool), the    *)
(* file it reads (doc), where it is (pc), the findings collected so far,   *)
(* the commands extracted and the index of the next one, what it printed   *)
(* for a fatal problem, and its result.  prev is the outcome of the run    *)
(* before this one on the same file; parsed and checked record that        *)
(* yaml.safe_load was called and which command entries were validated.     *)
(* argv is the list of the arguments after the script name, exit_code the  *)
(* code the process exited with (<<>> while it runs).                      *)
(***************************************************************************)
VARIABLES tool, doc, pc, errors, warnings, commands, idx, printed, result,
          prev, parsed, checked, all_ok, argv, exit_code

vars == <<tool, doc, pc, errors, warnings, commands, idx, printed, result,
          prev, parsed, checked, all_ok, argv, exit_code>>

(***************************************************************************)
(* Python str operations.                                                  *)
(***************************************************************************)
Whitespace == {" ", "\n", "\t", "\r"}

StartsWith(s, p) == Len(s) >= Len(p) /\ SubSeq(s, 1, Len(p)) = p

EndsWith(s, p) == Len(s) >= Len(p) /\ SubSeq(s, Len(s) - Len(p) + 1, Len(s)) = p

\* s[i:] starts with p (i is 1-based)
MatchAt(s, i, p) == i + Len(p) - 1 <= Len(s) /\ SubSeq(s, i, i + Len(p) - 1) = p

\* p in s
Contains(s, p) == \E i \in 1..(Len(s) - Len(p) + 1) : MatchAt(s, i, p)

\* s.find(p, from): the least index >= from where p occurs, 0 when none
Find(s, p, from) ==
    LET hits == {i \in from..(Len(s) - Len(p) + 1) : MatchAt(s, i, p)}
    IN  IF hits = {} THEN 0 ELSE CHOOSE i \in hits : \A j \in hits : i <= j

\* s.strip()
Strip(s) ==
    LET keep == {i \in 1..Len(s) : s[i] \notin Whitespace}
    IN  IF keep = {} THEN <<>>
        ELSE LET lo == CHOOSE i \in keep : \A j \in keep : i <= j
                 hi == CHOOSE i \in keep : \A j \in keep : i >= j
             IN  SubSeq(s, lo, hi)

\* s.split(sep)
RECURSIVE SplitFrom(_, _, _)
SplitFrom(s, sep, from) ==
    LET i == Find(s, sep, from)
    IN  IF i = 0 THEN <<SubSeq(s, from, Len(s))>>
        ELSE <<SubSeq(s, from, i - 1)>> \o SplitFrom(s, sep, i + Len(sep))

Split(s, sep) == SplitFrom(s, sep, 1)

\* s.split(sep, 1)
Split1(s, sep) ==
    LET i == Find(s, sep, 1)
    IN  IF i = 0 THEN <<s>>
        ELSE <<SubSeq(s, 1, i - 1), SubSeq(s, i + Len(sep), Len(s))>>

\* ' '.join(words)
RECURSIVE Join(_)
Join(words) ==
    IF words = <<>> THEN <<>>
    ELSE IF Len(words) = 1 THEN words[1]
    ELSE words[1] \o <<" ">> \o Join(Tail(words))

(***************************************************************************)
(* shlex.split(s): POSIX mode, whitespace_split, no comment characters.    *)
(* The lexer of shlex reads one character at a time; here it advances one  *)
(* run of characters at a time (a run of whitespace, a run of ordinary     *)
(* characters, a quoted stretch, an escaped character), which yields the   *)
(* same tokens.  The result is [ok, parts]; ok = FALSE stands for the      *)
(* ValueError ("No closing quotation", "No escaped character").            *)
(***************************************************************************)
Quotes == {"'", "\""}

\* the least index >= from whose character is in S, Len(s) + 1 when none
NextIn(s, from, S) ==
    LET hits == {i \in from..Len(s) : s[i] \in S}
    IN  IF hits = {} THEN Len(s) + 1 ELSE CHOOSE i \in hits : \A j \in hits : i <= j

\* the least index >= from whose character is not in S, Len(s) + 1 when none
NextNotIn(s, from, S) ==
    LET hits == {i \in from..Len(s) : s[i] \notin S}
    IN  IF hits = {} THEN Len(s) + 1 ELSE CHOOSE i \in hits : \A j \in hits : i <= j

\* inside double quotes, from index i: [ok, tok, next], next the index after
\* the closing quote.  A backslash is kept unless it escapes a backslash or
\* the quote.
RECURSIVE ShlexDouble(_, _, _)
ShlexDouble(s, i, tok) ==
    LET k == NextIn(s, i, {"\"", "\\"})
    IN  IF k > Len(s) THEN [ok |-> FALSE, tok |-> tok, next |-> k]
        ELSE IF s[k] = "\"" THEN [ok |-> TRUE, tok |-> tok \o SubSeq(s, i, k - 1), next |-> k + 1]
        ELSE IF k + 1 > Len(s) THEN [ok |-> FALSE, tok |-> tok, next |-> k]
        ELSE ShlexDouble(s, k + 2,
                 tok \o SubSeq(s, i, k - 1)
                     \o (IF s[k + 1] \in {"\"", "\\"} THEN <<s[k + 1]>> ELSE <<"\\", s[k + 1]>>))

\* inword: a token is being read (state 'a'); tok: its characters so far;
\* quoted: it had a quoted part; acc: the tokens read
RECURSIVE ShlexScan(_, _, _, _, _, _)
ShlexScan(s, i, inword, tok, quoted, acc) ==
    LET emit == IF inword /\ (tok # <<>> \/ quoted) THEN Append(acc, tok) ELSE acc
    IN  IF i > Len(s) THEN [ok |-> TRUE, parts |-> emit]
        ELSE IF s[i] \in Whitespace
             THEN ShlexScan(s, NextNotIn(s, i, Whitespace), FALSE, <<>>, FALSE, emit)
        ELSE IF s[i] = "'"
             THEN LET k == NextIn(s, i + 1, {"'"})
                  IN  IF k > Len(s) THEN [ok |-> FALSE, parts |-> acc]
                      ELSE ShlexScan(s, k + 1, TRUE, tok \o SubSeq(s, i + 1, k - 1), TRUE, acc)
        ELSE IF s[i] = "\""
             THEN LET d == ShlexDouble(s, i + 1, tok)
                  IN  IF ~d.ok THEN [ok |-> FALSE, parts |-> acc]
                      ELSE ShlexScan(s, d.next, TRUE, d.tok, TRUE, acc)
        ELSE IF s[i] = "\\"
             THEN IF i + 1 > Len(s) THEN [ok |-> FALSE, parts |-> acc]
                  ELSE ShlexScan(s, i + 2, TRUE, Append(tok, s[i + 1]), quoted, acc)
        ELSE LET j == NextIn(s, i, Whitespace \cup Quotes \cup {"\\"})
             IN  ShlexScan(s, j, TRUE, tok \o SubSeq(s, i, j - 1), quoted, acc)

ShlexSplit(s) == ShlexScan(s, 1, FALSE, <<>>, FALSE, <<>>)

(***************************************************************************)
(* The literals of the source.                                             *)
(***************************************************************************)
s_cloud_config == <<"#","c","l","o","u","d","-","c","o","n","f","i","g">>
s_systemd_cryptenroll == <<"s","y","s","t","e","m","d","-","c","r","y","p","t","e","n","r","o","l","l">>
s_cryptsetup == <<"c","r","y","p","t","s","e","t","u","p">>
s_luksAddKey == <<"l","u","k","s","A","d","d","K","e","y">>
s_key_file == <<"-","-","k","e","y","-","f","i","l","e">>
s_key_file_dash == <<"-","-","k","e","y","-","f","i","l","e","=","-">>
s_tpm2_device == <<"-","-","t","p","m","2","-","d","e","v","i","c","e">>
s_tpm2_device_list == <<"-","-","t","p","m","2","-","d","e","v","i","c","e","=","l","i","s","t">>
s_dev == <<"/","d","e","v","/">>
s_curtin == <<"c","u","r","t","i","n"," ","i","n","-","t","a","r","g","e","t"," ","-","-">>
s_bash_c == <<"b","a","s","h"," ","-","c">>
s_apt_get == <<"a","p","t","-","g","e","t">>
s_install == <<"i","n","s","t","a","l","l">>
s_echo == <<"e","c","h","o">>
s_and == <<"&","&">>
s_or == <<"|","|">>

k_autoinstall == <<"a","u","t","o","i","n","s","t","a","l","l">>
k_late_commands == <<"l","a","t","e","-","c","o","m","m","a","n","d","s">>
k_user_data == <<"u","s","e","r","-","d","a","t","a">>
k_runcmd == <<"r","u","n","c","m","d">>
k_version == <<"v","e","r","s","i","o","n">>
k_storage == <<"s","t","o","r","a","g","e">>
k_config == <<"c","o","n","f","i","g">>
k_type == <<"t","y","p","e">>
k_id == <<"i","d">>
k_device == <<"d","e","v","i","c","e">>
k_volume == <<"v","o","l","u","m","e">>
k_source == <<"s","o","u","r","c","e">>
k_identity == <<"i","d","e","n","t","i","t","y">>
k_packages == <<"p","a","c","k","a","g","e","s">>
k_interactive_sections == <<"i","n","t","e","r","a","c","t","i","v","e","-","s","e","c","t","i","o","n","s">>
k_hostname == <<"h","o","s","t","n","a","m","e">>
k_username == <<"u","s","e","r","n","a","m","e">>
k_password == <<"p","a","s","s","w","o","r","d">>
w_ubuntu_server == <<"u","b","u","n","t","u","-","s","e","r","v","e","r">>

(***************************************************************************)
(* The values yaml.safe_load returns: None, int, bool, str, list, dict.    *)
(* A dict is a function from keys (texts) to values.                       *)
(***************************************************************************)
PyNone == [t |-> "none"]
PyInt(n) == [t |-> "int", v |-> n]
PyBool(b) == [t |-> "bool", v |-> b]
PyStr(s) == [t |-> "str", v |-> s]
PyList(xs) == [t |-> "list", v |-> xs]
PyDict(f) == [t |-> "dict", v |-> f]

EmptyDict == PyDict(<<>>)

\* bool(x)
Truthy(x) ==
    CASE x.t = "none" -> FALSE
      [] x.t = "int" -> x.v # 0
      [] x.t = "bool" -> x.v
      [] OTHER -> x.v # <<>>

\* the number a bool or an int compares as (True == 1, False == 0)
NumOf(x) == IF x.t = "bool" THEN (IF x.v THEN 1 ELSE 0) ELSE x.v

\* x == y
PyEq(x, y) ==
    IF x.t \in {"int", "bool"} /\ y.t \in {"int", "bool"} THEN NumOf(x) = NumOf(y)
    ELSE IF x.t # y.t THEN FALSE
    ELSE IF x.t = "none" THEN TRUE
    ELSE x.v = y.v

\* `key in x` is defined (no TypeError) for str, list and dict
CanIn(x) == x.t \in {"str", "list", "dict"}

\* key in x, for a text key
PyIn(key, x) ==
    CASE x.t = "dict" -> key \in DOMAIN x.v
      [] x.t = "list" -> \E i \in 1..Len(x.v) : x.v[i].t = "str" /\ x.v[i].v = key
      [] x.t = "str" -> Contains(x.v, key)
      [] OTHER -> FALSE

\* x[key] for a text key is defined for a dict holding the key only
CanGet(x, key) == x.t = "dict" /\ key \in DOMAIN x.v

\* `for e in x` is defined for str, list and dict; iterating a str yields its
\* characters, iterating a dict its keys
CanIter(x) == x.t \in {"str", "list", "dict"}

RECURSIVE SetToSeq(_)
SetToSeq(S) ==
    IF S = {} THEN <<>>
    ELSE LET e == CHOOSE e \in S : TRUE IN <<e>> \o SetToSeq(S \ {e})

Iter(x) ==
    CASE x.t = "list" -> x.v
      [] x.t = "str" -> [i \in 1..Len(x.v) |-> PyStr(<<x.v[i]>>)]
      [] x.t = "dict" -> LET ks == SetToSeq(DOMAIN x.v) IN [i \in 1..Len(ks) |-> PyStr(ks[i])]
      [] OTHER -> <<>>

(***************************************************************************)
(* validate-commands.py: class CommandValidator.  A validator v is the     *)
(* pair of its fields [errors, warnings]; each method returns the          *)
(* validator it leaves behind.                                             *)
(***************************************************************************)
\* a validator that is not emptied: it keeps the findings of the run before
StaleValidator == [errors |-> errors, warnings |-> warnings]

NewValidator == [errors |-> <<>>, warnings |-> <<>>]

AddError(v, msg) == [v EXCEPT !.errors = Append(@, msg)]

AddWarning(v, msg) == [v EXCEPT !.warnings = Append(@, msg)]

E_KeyFile == "systemd-cryptenroll does not support --key-file option"
E_NoDevice == "systemd-cryptenroll requires a device path (/dev/...) for enrollment"
W_NoTpm == "systemd-cryptenroll used without --tpm2-device option"
E_NoSubcommand == "cryptsetup requires a subcommand"
E_Order == "cryptsetup luksAddKey: device must come before keyfile"
E_KeyFileDash == "cryptsetup luksAddKey: use stdin directly, not --key-file=-"
E_ShellSyntax == "Shell syntax error in command"
E_TrailingAnd == "Command ends with && but no following command"
E_ParseYaml == "Failed to parse YAML"
E_NoHeader == "Missing #cloud-config header"
E_ReadFile == "Failed to read file"

\* the device test of validate_systemd_cryptenroll
IsDevicePart(part) == StartsWith(part, s_dev) \/ StartsWith(part, <<"$">>)

\* no early return: the list query is treated like an enrollment
NoListQuery(cmd_parts) == FALSE

\* the early return of validate_systemd_cryptenroll
IsListQuery(cmd_parts) ==
    \E i \in 1..Len(cmd_parts) : Contains(cmd_parts[i], s_tpm2_device_list)

validate_systemd_cryptenroll(v, cmd_parts) ==
    LET nKey == Len(SelectSeq(cmd_parts, LAMBDA part : StartsWith(part, s_key_file)))
        v1 == [v EXCEPT !.errors = @ \o [i \in 1..nKey |-> E_KeyFile]]
        has_device == \E i \in 1..Len(cmd_parts) : IsDevicePart(cmd_parts[i])
        has_tpm == \E i \in 1..Len(cmd_parts) : Contains(cmd_parts[i], s_tpm2_device)
        v2 == IF ~has_device THEN AddError(v1, E_NoDevice) ELSE v1
    IN  IF IsListQuery(cmd_parts) THEN v1
        ELSE IF ~has_tpm /\ has_device THEN AddWarning(v2, W_NoTpm) ELSE v2

IsDevPath(part) == StartsWith(part, s_dev)

IsKeyfilePath(part) ==
    ~StartsWith(part, s_dev) /\ StartsWith(part, <<"/">>) /\ ~StartsWith(part, <<"-","-">>)

\* the last of the 0-based indexes the loop of validate_cryptsetup assigns,
\* None (here -1) when it assigns none
LastIdx(hits) ==
    IF hits = {} THEN -1 ELSE CHOOSE i \in hits : \A j \in hits : i >= j

\* `for i, part in enumerate(cmd_parts[2:], 2)`: the indexes i >= 2 of the
\* device tokens, and of the keyfile tokens
DeviceHits(cmd_parts) ==
    {i \in 2..(Len(cmd_parts) - 1) : IsDevPath(cmd_parts[i + 1])}

KeyfileHits(cmd_parts) ==
    {i \in 2..(Len(cmd_parts) - 1) : IsKeyfilePath(cmd_parts[i + 1])}

\* the comparison of the two indexes the other way round
WrongOrderFlipped(device_idx, keyfile_idx) ==
    /\ device_idx # -1 /\ device_idx # 0
    /\ keyfile_idx # -1 /\ keyfile_idx # 0
    /\ device_idx < keyfile_idx

\* `if device_idx and keyfile_idx and device_idx > keyfile_idx`
WrongOrder(device_idx, keyfile_idx) ==
    /\ device_idx # -1 /\ device_idx # 0
    /\ keyfile_idx # -1 /\ keyfile_idx # 0
    /\ device_idx > keyfile_idx

\* validate_cryptsetup that looks for '--key-file=-' only when the order is
\* right
validate_cryptsetup_either(v, cmd_parts) ==
    IF Len(cmd_parts) < 2 THEN AddError(v, E_NoSubcommand)
    ELSE IF cmd_parts[2] # s_luksAddKey THEN v
    ELSE IF WrongOrder(LastIdx(DeviceHits(cmd_parts)), LastIdx(KeyfileHits(cmd_parts)))
    THEN AddError(v, E_Order)
    ELSE IF \E i \in 1..Len(cmd_parts) : Contains(cmd_parts[i], s_key_file_dash)
    THEN AddError(v, E_KeyFileDash) ELSE v

validate_cryptsetup(v, cmd_parts) ==
    IF Len(cmd_parts) < 2 THEN AddError(v, E_NoSubcommand)
    ELSE IF cmd_parts[2] # s_luksAddKey THEN v
    ELSE LET device_idx == LastIdx(DeviceHits(cmd_parts))
             keyfile_idx == LastIdx(KeyfileHits(cmd_parts))
             v1 == IF WrongOrder(device_idx, keyfile_idx) THEN AddError(v, E_Order) ELSE v
         IN  IF \E i \in 1..Len(cmd_parts) : Contains(cmd_parts[i], s_key_file_dash)
             THEN AddError(v1, E_KeyFileDash) ELSE v1

validate_shell_syntax(v, command) ==
    IF Strip(command) = <<"|">> THEN v
    ELSE IF ~ShlexSplit(command).ok THEN AddError(v, E_ShellSyntax)
    ELSE IF Contains(command, s_and) /\ ~EndsWith(Strip(command), <<"\\">>)
         THEN LET parts == Split(command, s_and)
              IN  IF Strip(parts[Len(parts)]) = <<>> THEN AddError(v, E_TrailingAnd) ELSE v
         ELSE v

\* the text after the first '|' of the command, further pipes included
NextCmdRest(command) == Strip(Split1(command, <<"|">>)[2])

\* `next_cmd = pipe_parts[1].strip()` with pipe_parts = command.split('|'):
\* the segment between the first and the second '|'
NextCmd(command) == Strip(Split(command, <<"|">>)[2])

RECURSIVE validate_specific_command(_, _)
validate_specific_command(v, command) ==
    LET sp == ShlexSplit(command)
        parts == sp.parts
    IN  IF ~sp.ok THEN v               \* except Exception: pass
        ELSE IF parts = <<>> THEN v
        ELSE IF parts[1] = s_systemd_cryptenroll THEN validate_systemd_cryptenroll(v, parts)
        ELSE IF parts[1] = s_cryptsetup THEN validate_cryptsetup(v, parts)
        ELSE IF parts[1] = s_apt_get /\ Len(parts) > 2 /\ parts[2] = s_install THEN v
        ELSE IF parts[1] = s_echo /\ Contains(command, <<"|">>)
             THEN LET pipe_parts == Split(command, <<"|">>)
                  IN  IF Len(pipe_parts) > 1
                      THEN validate_specific_command(v, NextCmd(command))
                      ELSE v
        ELSE v

\* re.search(r'bash -c [\'"](.+)[\'"]', s, re.DOTALL): the leftmost "bash -c "
\* followed by a quote, one character at least, and (greedily) the last quote
\* of the text.  [found, group]
BashCSearch(s) ==
    LET lastq == LET qs == {m \in 1..Len(s) : s[m] \in Quotes}
                 IN  IF qs = {} THEN 0 ELSE CHOOSE m \in qs : \A n \in qs : m >= n
        starts == {i \in 1..Len(s) :
                      /\ MatchAt(s, i, s_bash_c \o <<" ">>)
                      /\ i + 8 <= Len(s) /\ s[i + 8] \in Quotes
                      /\ lastq >= i + 10}
    IN  IF starts = {} THEN [found |-> FALSE, group |-> <<>>]
        ELSE LET i == CHOOSE i \in starts : \A j \in starts : i <= j
             IN  [found |-> TRUE, group |-> SubSeq(s, i + 9, lastq - 1)]

\* the loop over bash_cmd.split('\n') of validate_command
RECURSIVE ValidateLines(_, _)
ValidateLines(v, lines) ==
    IF lines = <<>> THEN v
    ELSE LET line == Strip(Head(lines))
             v1 == IF line # <<>> /\ ~StartsWith(line, <<"#">>)
                   THEN validate_specific_command(v, line) ELSE v
         IN  ValidateLines(v1, Tail(lines))

\* the text validate_command checks once the curtin wrapper is split off
ActualCmd(command) ==
    IF Contains(command, s_curtin)
    THEN LET parts == Split1(command, s_curtin)
         IN  IF Len(parts) > 1 THEN Strip(parts[2]) ELSE command
    ELSE command

validate_command(v, command) ==
    IF StartsWith(Strip(command), <<"#">>) THEN v
    ELSE LET actual_cmd == ActualCmd(command)
         IN  IF Contains(actual_cmd, s_bash_c)
             THEN LET m == BashCSearch(actual_cmd)
                  IN  IF m.found
                      THEN ValidateLines(validate_shell_syntax(v, m.group),
                                         Split(m.group, <<"\n">>))
                      ELSE v
             ELSE validate_specific_command(v, actual_cmd)

\* extract_commands_from_yaml, the entries of autoinstall['late-commands']:
\* [raised, cmds]; raised stands for the TypeError the try block catches
ExtractLate(autoinstall) ==
    IF ~CanIn(autoinstall) THEN [raised |-> TRUE, cmds |-> <<>>]
    ELSE IF ~PyIn(k_late_commands, autoinstall) THEN [raised |-> FALSE, cmds |-> <<>>]
    ELSE IF ~CanGet(autoinstall, k_late_commands) THEN [raised |-> TRUE, cmds |-> <<>>]
    ELSE LET lc == autoinstall.v[k_late_commands]
             strs == SelectSeq(Iter(lc), LAMBDA cmd : cmd.t = "str")
         IN  IF ~CanIter(lc) THEN [raised |-> TRUE, cmds |-> <<>>]
             ELSE [raised |-> FALSE,
                   cmds |-> [i \in 1..Len(strs) |-> <<"late-command", strs[i].v>>]]

\* extract_commands_from_yaml, the entries of autoinstall['user-data']['runcmd']
ExtractRuncmd(autoinstall) ==
    IF ~PyIn(k_user_data, autoinstall) THEN [raised |-> FALSE, cmds |-> <<>>]
    ELSE IF ~CanGet(autoinstall, k_user_data) THEN [raised |-> TRUE, cmds |-> <<>>]
    ELSE LET ud == autoinstall.v[k_user_data]
         IN  IF ~CanIn(ud) THEN [raised |-> TRUE, cmds |-> <<>>]
             ELSE IF ~PyIn(k_runcmd, ud) THEN [raised |-> FALSE, cmds |-> <<>>]
             ELSE IF ~CanGet(ud, k_runcmd) THEN [raised |-> TRUE, cmds |-> <<>>]
             ELSE LET rc == ud.v[k_runcmd]
                      strs == SelectSeq(Iter(rc), LAMBDA cmd : cmd.t = "str")
                  IN  IF ~CanIter(rc) THEN [raised |-> TRUE, cmds |-> <<>>]
                      ELSE [raised |-> FALSE,
                            cmds |-> [i \in 1..Len(strs) |-> <<"runcmd", strs[i].v>>]]

\* extract_commands_from_yaml(yaml_content): [raised, cmds], cmds the list it
\* returns, raised when the except branch appended "Failed to parse YAML"
extract_commands_from_yaml(d) ==
    IF d.yaml = "error" THEN [raised |-> TRUE, cmds |-> <<>>]
    ELSE IF ~Truthy(d.data) THEN [raised |-> FALSE, cmds |-> <<>>]
    ELSE IF ~CanIn(d.data) THEN [raised |-> TRUE, cmds |-> <<>>]
    ELSE IF ~PyIn(k_autoinstall, d.data) THEN [raised |-> FALSE, cmds |-> <<>>]
    ELSE IF ~CanGet(d.data, k_autoinstall) THEN [raised |-> TRUE, cmds |-> <<>>]
    ELSE LET autoinstall == d.data.v[k_autoinstall]
             late == ExtractLate(autoinstall)
             run == ExtractRuncmd(autoinstall)
         IN  IF late.raised THEN late
             ELSE [raised |-> run.raised, cmds |-> late.cmds \o run.cmds]

\* `if not content.startswith('#cloud-config')`: the content starts with its
\* first line
HeaderMissing(d) == ~StartsWith(d.firstLine, s_cloud_config)

(***************************************************************************)
(* validate-autoinstall-strict.py.  The findings are the message strings   *)
(* the script builds; what an exception's text would add is left out.      *)
(***************************************************************************)
\* the str of a text
RECURSIVE Text(_)
Text(s) == IF s = <<>> THEN "" ELSE s[1] \o Text(Tail(s))

\* type(x).__name__
TypeName(x) == IF x.t = "none" THEN "NoneType" ELSE x.t

\* f"{x}" for the scalars
Show(x) ==
    CASE x.t = "str" -> Text(x.v)
      [] x.t = "int" -> ToString(x.v)
      [] x.t = "bool" -> IF x.v THEN "True" ELSE "False"
      [] x.t = "none" -> "None"
      [] OTHER -> "..."

\* re.search(r'(?:bash|sh)\s+-c\s+["\'](.+)["\']', cmd) finds a match
ShellCSearch(cmd) ==
    \E i \in 1..Len(cmd) :
        /\ MatchAt(cmd, i, <<"s", "h">>)
        /\ LET j == i + 2
               k == NextNotIn(cmd, j, Whitespace)
               m == k + 2
               n == NextNotIn(cmd, m, Whitespace)
           IN  /\ k > j /\ MatchAt(cmd, k, <<"-", "c">>)
               /\ n > m /\ n <= Len(cmd) /\ cmd[n] \in Quotes
               /\ \E b \in (n + 2)..Len(cmd) :
                      /\ cmd[b] \in Quotes
                      /\ \A x \in (n + 1)..(b - 1) : cmd[x] # "\n"

\* the findings of validate_late_commands for the entry cmd at 0-based index i
LateCommandErrors(i, cmd) ==
    LET pre == "Late command " \o ToString(i + 1) \o ": "
        st == Strip(cmd.v)
        quote == IF StartsWith(st, <<"'">>) /\ ~EndsWith(st, <<"'">>)
                 THEN <<pre \o "Unclosed single quote">>
                 ELSE IF StartsWith(st, <<"\"">>) /\ ~EndsWith(st, <<"\"">>)
                 THEN <<pre \o "Unclosed double quote">>
                 ELSE <<>>
        shell == IF (Contains(cmd.v, s_bash_c) \/ Contains(cmd.v, <<"s","h"," ","-","c">>))
                    /\ ~ShellCSearch(cmd.v) /\ ~ShlexSplit(cmd.v).ok
                 THEN <<pre \o "Shell parsing error">>
                 ELSE <<>>
    IN  IF cmd.t # "str" THEN <<pre \o "Must be a string, got " \o TypeName(cmd)>>
        ELSE IF st = <<>> THEN <<pre \o "Empty command">>
        ELSE quote \o shell

RECURSIVE LateCommandsFrom(_, _)
LateCommandsFrom(cmds, i) ==
    IF i >= Len(cmds) THEN <<>>
    ELSE LateCommandErrors(i, cmds[i + 1]) \o LateCommandsFrom(cmds, i + 1)

\* validate_late_commands(commands): [crash, errs]; crash stands for the
\* TypeError of enumerate() on a value that cannot be iterated
validate_late_commands(cmds) ==
    IF ~CanIter(cmds) THEN [crash |-> TRUE, errs |-> <<>>]
    ELSE [crash |-> FALSE, errs |-> LateCommandsFrom(Iter(cmds), 0)]

PackageErrors(i, pkg) ==
    LET pre == "Package " \o ToString(i + 1) \o ": "
    IN  IF pkg.t # "str" THEN <<pre \o "Must be a string, got " \o TypeName(pkg)>>
        ELSE IF Strip(pkg.v) = <<>> THEN <<pre \o "Empty package name">>
        ELSE <<>>

RECURSIVE PackagesFrom(_, _)
PackagesFrom(pkgs, i) ==
    IF i >= Len(pkgs) THEN <<>>
    ELSE PackageErrors(i, pkgs[i + 1]) \o PackagesFrom(pkgs, i + 1)

validate_packages(packages) ==
    IF packages.t # "list" THEN <<"Packages must be a list">>
    ELSE PackagesFrom(packages.v, 0)

\* x in defined_ids
InIds(x, defined_ids) == \E y \in defined_ids : PyEq(x, y)

\* a value a set can hold
Hashable(x) == x.t \notin {"list", "dict"}

\* the reference check of validate_storage for the key k ('device', 'volume')
RefErrors(i, item, k, defined_ids) ==
    IF PyIn(k, item) /\ item.v[k].t = "str" /\ ~InIds(item.v[k], defined_ids)
    THEN <<"Storage config " \o ToString(i + 1) \o ": References undefined "
             \o Text(k) \o " '" \o Text(item.v[k].v) \o "'">>
    ELSE <<>>

\* the loop of validate_storage from the 0-based index i on: [crash, errs]
RECURSIVE StorageFrom(_, _, _, _)
StorageFrom(config, i, defined_ids, errs) ==
    IF i >= Len(config) THEN [crash |-> FALSE, errs |-> errs]
    ELSE LET item == config[i + 1]
             pre == "Storage config " \o ToString(i + 1) \o ": "
         IN  IF ~CanIn(item) THEN [crash |-> TRUE, errs |-> errs]
             ELSE IF ~PyIn(k_type, item)
                  THEN StorageFrom(config, i + 1, defined_ids,
                                   Append(errs, pre \o "Missing 'type' field"))
             ELSE IF item.t # "dict" /\ (PyIn(k_id, item) \/ PyIn(k_device, item) \/ PyIn(k_volume, item))
                  THEN [crash |-> TRUE, errs |-> errs]
             ELSE IF PyIn(k_id, item) /\ ~Hashable(item.v[k_id])
                  THEN [crash |-> TRUE, errs |-> errs]
             ELSE LET has_id == PyIn(k_id, item)
                      dup == IF has_id /\ InIds(item.v[k_id], defined_ids)
                             THEN <<pre \o "Duplicate ID '" \o Show(item.v[k_id]) \o "'">>
                             ELSE <<>>
                      ids == IF has_id THEN defined_ids \cup {item.v[k_id]} ELSE defined_ids
                  IN  StorageFrom(config, i + 1, ids,
                                  errs \o dup \o RefErrors(i, item, k_device, ids)
                                       \o RefErrors(i, item, k_volume, ids))

\* validate_storage(storage): [crash, errs]
validate_storage(storage) ==
    IF ~CanIn(storage) THEN [crash |-> TRUE, errs |-> <<>>]
    ELSE IF ~PyIn(k_config, storage)
         THEN [crash |-> FALSE, errs |-> <<"Storage: Missing 'config' section">>]
    ELSE IF ~CanGet(storage, k_config) THEN [crash |-> TRUE, errs |-> <<>>]
    ELSE LET config == storage.v[k_config]
         IN  IF config.t # "list"
             THEN [crash |-> FALSE, errs |-> <<"Storage config must be a list">>]
             ELSE StorageFrom(config.v, 0, {}, <<>>)

(***************************************************************************)
(* validate-step10-tpm-early.py: class CommandValidator (its methods carry *)
(* the prefix s10_ here).  ln is the text of line_num.                     *)
(***************************************************************************)
s_tpm2_device_auto == <<"-","-","t","p","m","2","-","d","e","v","i","c","e","=","a","u","t","o">>
s_tpm2_pcrs == <<"-","-","t","p","m","2","-","p","c","r","s">>
s_luksRemoveKey == <<"l","u","k","s","R","e","m","o","v","e","K","e","y">>
s_blkid == <<"b","l","k","i","d">>
s_update_initramfs == <<"u","p","d","a","t","e","-","i","n","i","t","r","a","m","f","s">>
s_systemctl == <<"s","y","s","t","e","m","c","t","l">>
s_openssl == <<"o","p","e","n","s","s","l">>
s_TYPE == <<"T","Y","P","E","=">>
s_crypto_LUKS == <<"c","r","y","p","t","o","_","L","U","K","S">>
s_enable == <<"e","n","a","b","l","e">>
s_service == <<".","s","e","r","v","i","c","e">>
s_apt_get_install == <<"a","p","t","-","g","e","t"," ","i","n","s","t","a","l","l">>
s_openssl_rand == <<"o","p","e","n","s","s","l"," ","r","a","n","d">>
s_base64 == <<"-","b","a","s","e","6","4">>

\* valid_options of check_systemd_cryptenroll
valid_options ==
    {s_tpm2_device, s_tpm2_pcrs,
     <<"-","-","t","p","m","2","-","p","u","b","l","i","c","-","k","e","y">>,
     <<"-","-","t","p","m","2","-","p","u","b","l","i","c","-","k","e","y","-","p","c","r","s">>,
     <<"-","-","t","p","m","2","-","s","i","g","n","a","t","u","r","e">>,
     <<"-","-","w","i","p","e","-","s","l","o","t">>,
     <<"-","-","p","a","s","s","w","o","r","d">>,
     <<"-","-","r","e","c","o","v","e","r","y","-","k","e","y">>}

\* \w
WordChars ==
    {"a","b","c","d","e","f","g","h","i","j","k","l","m","n","o","p","q","r","s","t","u",
     "v","w","x","y","z","A","B","C","D","E","F","G","H","I","J","K","L","M","N","O","P",
     "Q","R","S","T","U","V","W","X","Y","Z","0","1","2","3","4","5","6","7","8","9","_"}

Digits == {"0","1","2","3","4","5","6","7","8","9"}

\* \s+ at index j: the index after the run of whitespace, 0 when s[j] is none
SkipWs(s, j) == IF j <= Len(s) /\ s[j] \in Whitespace THEN NextNotIn(s, j, Whitespace) ELSE 0

\* lit \s+ at index i: the index after it, 0 when it does not match
LitWs(s, i, lit) == IF MatchAt(s, i, lit) THEN SkipWs(s, i + Len(lit)) ELSE 0

\* re.finditer(r'systemd-cryptenroll\s+([^\n;&|]+)', script): group(1).strip()
\* of every match from index `from` on.  When the whitespace is followed by a
\* separator the group is whitespace the \s+ gave back, and strips to ''.
RECURSIVE CryptenrollArgs(_, _)
CryptenrollArgs(script, from) ==
    LET hits == {i \in from..Len(script) : LitWs(script, i, s_systemd_cryptenroll) # 0}
    IN  IF hits = {} THEN <<>>
        ELSE LET i == CHOOSE i \in hits : \A j \in hits : i <= j
                 q == LitWs(script, i, s_systemd_cryptenroll)
                 stop == {"\n", ";", "&", "|"}
             IN  IF q <= Len(script) /\ script[q] \notin stop
                 THEN LET r == NextIn(script, q, stop)
                      IN  <<Strip(SubSeq(script, q, r - 1))>> \o CryptenrollArgs(script, r)
                 ELSE IF \E j \in (i + Len(s_systemd_cryptenroll) + 1)..(q - 1) : script[j] # "\n"
                 THEN <<<<>>>> \o CryptenrollArgs(script, q)
                 ELSE CryptenrollArgs(script, i + 1)

\* re.findall(r'--[\w-]+', args) from index `from` on
RECURSIVE FindOptions(_, _)
FindOptions(args, from) ==
    LET hits == {i \in from..(Len(args) - 2) :
                    MatchAt(args, i, <<"-", "-">>) /\ args[i + 2] \in WordChars \cup {"-"}}
    IN  IF hits = {} THEN <<>>
        ELSE LET i == CHOOSE i \in hits : \A j \in hits : i <= j
                 e == NextNotIn(args, i + 2, WordChars \cup {"-"})
             IN  <<SubSeq(args, i, e - 1)>> \o FindOptions(args, e)

\* the value re.search(r'--tpm2-pcrs=([^\s]+)', args) captures: [found, value]
PcrValue(args) ==
    LET lit == s_tpm2_pcrs \o <<"=">>
        hits == {i \in 1..Len(args) :
                    MatchAt(args, i, lit) /\ i + Len(lit) <= Len(args)
                    /\ args[i + Len(lit)] \notin Whitespace}
    IN  IF hits = {} THEN [found |-> FALSE, value |-> <<>>]
        ELSE LET i == CHOOSE i \in hits : \A j \in hits : i <= j
                 b == i + Len(lit)
             IN  [found |-> TRUE, value |-> SubSeq(args, b, NextIn(args, b, Whitespace) - 1)]

\* the checks of check_systemd_cryptenroll on the arguments of one match
CryptenrollChecks(v, args, ln) ==
    LET v1 == IF Contains(args, s_key_file)
              THEN AddError(v, ln \o "systemd-cryptenroll does not support --key-file option")
              ELSE v
        bad == SelectSeq(FindOptions(args, 1),
                         LAMBDA opt : ~\E valid \in valid_options : StartsWith(opt, valid))
        v2 == [v1 EXCEPT !.warnings = @ \o [i \in 1..Len(bad) |->
                   ln \o "Possibly invalid option '" \o Text(bad[i]) \o "' for systemd-cryptenroll"]]
        v3 == IF Contains(args, s_tpm2_device_auto) \/ Contains(args, s_tpm2_device_list) THEN v2
              ELSE IF Contains(args, s_tpm2_device) /\ ~Contains(args, <<"=">>)
              THEN AddError(v2, ln \o "--tpm2-device requires =auto or =list")
              ELSE v2
        pcr == PcrValue(args)
    IN  IF Contains(args, s_tpm2_pcrs) /\ pcr.found
           /\ \E i \in 1..Len(pcr.value) : pcr.value[i] \notin Digits \cup {",", "+"}
        THEN AddError(v3, ln \o "Invalid PCR specification: " \o Text(pcr.value))
        ELSE v3

RECURSIVE CryptenrollEach(_, _, _)
CryptenrollEach(v, argss, ln) ==
    IF argss = <<>> THEN v
    ELSE CryptenrollEach(CryptenrollChecks(v, Head(argss), ln), Tail(argss), ln)

s10_check_systemd_cryptenroll(v, script, ln) ==
    CryptenrollEach(v, CryptenrollArgs(script, 1), ln)

\* re.search(r'cryptsetup\s+luksAddKey\s+([^\s]+)\s+([^\s]+)', script)
AddKeySearch(script) ==
    \E i \in 1..Len(script) :
        LET a == LitWs(script, i, s_cryptsetup)
            b == IF a = 0 THEN 0 ELSE LitWs(script, a, s_luksAddKey)
            c == IF b = 0 \/ b > Len(script) THEN 0
                 ELSE SkipWs(script, NextIn(script, b, Whitespace))
        IN  c # 0 /\ c <= Len(script)

\* re.search(r'luksRemoveKey.*(-d|--key-file)', script)
RemoveKeySearch(script) ==
    \E i \in 1..Len(script) :
        /\ MatchAt(script, i, s_luksRemoveKey)
        /\ \E j \in (i + Len(s_luksRemoveKey))..Len(script) :
              /\ MatchAt(script, j, <<"-", "d">>) \/ MatchAt(script, j, s_key_file)
              /\ \A x \in (i + Len(s_luksRemoveKey))..(j - 1) : script[x] # "\n"

s10_check_cryptsetup(v, script, ln) ==
    LET v1 == IF Contains(script, s_luksAddKey) /\ ~AddKeySearch(script)
              THEN AddWarning(v, ln \o "cryptsetup luksAddKey may have incorrect syntax")
              ELSE v
    IN  IF Contains(script, s_luksRemoveKey) /\ RemoveKeySearch(script)
        THEN AddError(v1, ln \o "cryptsetup luksRemoveKey does not use -d or --key-file; the key is provided via stdin")
        ELSE v1

s10_check_blkid(v, script, ln) ==
    IF /\ Contains(script, s_blkid)
       /\ Contains(script, s_TYPE) /\ Contains(script, s_crypto_LUKS)
       /\ ~\E i \in 1..Len(script) :
              /\ MatchAt(script, i, s_TYPE)
              /\ i + 5 <= Len(script) /\ script[i + 5] \in Quotes
              /\ MatchAt(script, i + 6, s_crypto_LUKS)
              /\ i + 17 <= Len(script) /\ script[i + 17] \in Quotes
    THEN AddWarning(v, ln \o "TYPE=crypto_LUKS should be quoted")
    ELSE v

s10_check_update_initramfs(v, script, ln) ==
    IF /\ Contains(script, s_update_initramfs)
       /\ ~\E i \in 1..Len(script) :
              LET a == LitWs(script, i, s_update_initramfs)
              IN  a # 0 /\ MatchAt(script, a, <<"-", "u">>)
    THEN AddWarning(v, ln \o "update-initramfs should use -u flag")
    ELSE v

\* the index after r'systemctl\s+enable\s+' at index i, 0 when it does not match
EnableAt(script, i) ==
    LET a == LitWs(script, i, s_systemctl)
    IN  IF a = 0 THEN 0 ELSE LitWs(script, a, s_enable)

s10_check_systemctl(v, script, ln) ==
    IF /\ Contains(script, s_systemctl)
       /\ \E i \in 1..Len(script) :
              LET b == EnableAt(script, i)
                  e == NextIn(script, b, Whitespace \cup {"."})
              IN  b # 0 /\ e > b /\ e <= Len(script) /\ script[e] \in Whitespace
       /\ ~\E i \in 1..Len(script) :
              LET b == EnableAt(script, i)
                  e == NextNotIn(script, b, WordChars \cup {"-"})
              IN  b # 0 /\ e > b /\ MatchAt(script, e, s_service)
    THEN AddWarning(v, ln \o "systemctl enable should include .service extension")
    ELSE v

s10_check_apt_get(v, script, ln) ==
    IF /\ Contains(script, s_apt_get_install)
       /\ ~\E i \in 1..Len(script) :
              LET a == LitWs(script, i, s_apt_get_install)
              IN  a # 0 /\ MatchAt(script, a, <<"-", "y">>)
    THEN AddWarning(v, ln \o "apt-get install should use -y flag in automated scripts")
    ELSE v

s10_check_openssl(v, script, ln) ==
    IF Contains(script, s_openssl_rand) /\ ~Contains(script, s_base64)
    THEN AddWarning(v, ln \o "openssl rand should use -base64 for text output")
    ELSE v

\* commands_to_check, in its order
commands_to_check ==
    <<s_systemd_cryptenroll, s_cryptsetup, s_blkid, s_update_initramfs, s_systemctl,
      s_apt_get, s_openssl>>

\* check_func(script, line_num) of the entry cmd_name
check_func(cmd_name, v, script, ln) ==
    CASE cmd_name = s_systemd_cryptenroll -> s10_check_systemd_cryptenroll(v, script, ln)
      [] cmd_name = s_cryptsetup -> s10_check_cryptsetup(v, script, ln)
      [] cmd_name = s_blkid -> s10_check_blkid(v, script, ln)
      [] cmd_name = s_update_initramfs -> s10_check_update_initramfs(v, script, ln)
      [] cmd_name = s_systemctl -> s10_check_systemctl(v, script, ln)
      [] cmd_name = s_apt_get -> s10_check_apt_get(v, script, ln)
      [] OTHER -> s10_check_openssl(v, script, ln)

\* the loop of validate_bash_script from the entry i on
RECURSIVE CheckFrom(_, _, _, _)
CheckFrom(i, v, script, ln) ==
    IF i > Len(commands_to_check) THEN v
    ELSE CheckFrom(i + 1,
                   IF Contains(script, commands_to_check[i])
                   THEN check_func(commands_to_check[i], v, script, ln) ELSE v,
                   script, ln)

s10_validate_bash_script(v, script, ln) == CheckFrom(1, v, script, ln)

\* re.search(r'\s+(\|\||&&)\s+', cmd)
SpacedOperator(cmd) ==
    \E i \in 1..Len(cmd) :
        /\ cmd[i] \in Whitespace
        /\ MatchAt(cmd, i + 1, s_or) \/ MatchAt(cmd, i + 1, s_and)
        /\ i + 3 <= Len(cmd) /\ cmd[i + 3] \in Whitespace

s10_check_command_syntax(v, cmd, ln) ==
    IF (Contains(cmd, s_or) \/ Contains(cmd, s_and)) /\ ~SpacedOperator(cmd)
    THEN AddWarning(v, ln \o "Operators || and && should have spaces around them")
    ELSE v

\* re.match(r'bash -c ["\'](.+)["\']$', cmd, re.DOTALL) on a stripped cmd:
\* [found, group]
BashCMatch(cmd) ==
    IF /\ MatchAt(cmd, 1, s_bash_c \o <<" ">>)
       /\ Len(cmd) >= 11
       /\ cmd[9] \in Quotes /\ cmd[Len(cmd)] \in Quotes
    THEN [found |-> TRUE, group |-> SubSeq(cmd, 10, Len(cmd) - 1)]
    ELSE [found |-> FALSE, group |-> <<>>]

s10_validate_curtin_command(v, cmd, ln) ==
    IF StartsWith(cmd, s_bash_c)
    THEN LET m == BashCMatch(cmd)
         IN  IF m.found THEN s10_validate_bash_script(v, m.group, ln) ELSE v
    ELSE s10_check_command_syntax(v, cmd, ln)

s10_validate_direct_command(v, cmd, ln) == s10_check_command_syntax(v, cmd, ln)

s10_validate_command(v, cmd, line_num) ==
    LET ln == "Line ~" \o ToString(line_num) \o ": "
    IN  IF StartsWith(cmd, s_curtin)
        THEN s10_validate_curtin_command(v, Strip(SubSeq(cmd, 20, Len(cmd))), ln)
        ELSE s10_validate_direct_command(v, cmd, ln)

(***************************************************************************)
(* dict.get, any(... item.get(key) == value ...) and next(...), as          *)
(* validate-yaml.py and validate-autoinstall.py use them.                   *)
(***************************************************************************)
\* x.get(key) of a dict x
Get(x, key) == IF key \in DOMAIN x.v THEN x.v[key] ELSE PyNone

\* x.get(key, default) of a dict x
GetOr(x, key, default) == IF key \in DOMAIN x.v THEN x.v[key] ELSE default

\* the index of the first item that has no .get, Len(items) + 1 when all have
FirstNoGet(items) ==
    LET bad == {i \in 1..Len(items) : items[i].t # "dict"}
    IN  IF bad = {} THEN Len(items) + 1 ELSE CHOOSE i \in bad : \A j \in bad : i <= j

\* next((f for f in items if f.get(key) == value), None): the index of the
\* item, 0 for None, -1 when an item without .get is met first
FirstWith(items, key, value) ==
    LET hits == {i \in 1..Len(items) :
                    items[i].t = "dict" /\ PyEq(Get(items[i], key), PyStr(value))}
        hit == IF hits = {} THEN Len(items) + 1
               ELSE CHOOSE i \in hits : \A j \in hits : i <= j
    IN  IF hit < FirstNoGet(items) THEN hit
        ELSE IF FirstNoGet(items) <= Len(items) THEN -1
        ELSE 0

\* len(x) is defined
CanLen(x) == x.t \in {"str", "list", "dict"}

(***************************************************************************)
(* validate-yaml.py: validate_yaml(file_path).                             *)
(***************************************************************************)
lvm_volgroup == <<"l","v","m","_","v","o","l","g","r","o","u","p">>

\* lines 40-47: the summary raises an exception (AttributeError, TypeError)
SummaryRaises(autoinstall) ==
    \/ autoinstall.t # "dict"
    \/ GetOr(autoinstall, k_source, EmptyDict).t # "dict"
    \/ GetOr(autoinstall, k_storage, EmptyDict).t # "dict"
    \/ LET config == GetOr(GetOr(autoinstall, k_storage, EmptyDict), k_config, PyList(<<>>))
       IN  ~CanIter(config) \/ FirstWith(Iter(config), k_type, lvm_volgroup) = -1
    \/ ~CanLen(GetOr(autoinstall, k_packages, PyList(<<>>)))
    \/ ~CanLen(GetOr(autoinstall, k_late_commands, PyList(<<>>)))

(***************************************************************************)
(* validate-autoinstall.py: the checks of validate_autoinstall on the      *)
(* autoinstall section.  Each yields [raised, lines]: the failure lines it *)
(* prints (each sets all_ok = False), and whether it raised an exception.  *)
(***************************************************************************)
dm_crypt == <<"d","m","_","c","r","y","p","t">>
lvm_partition == <<"l","v","m","_","p","a","r","t","i","t","i","o","n">>
k_passphrase == <<"p","a","s","s","p","h","r","a","s","e">>
temporary_password ==
    <<"T","e","m","p","o","r","a","r","y","U","b","u","n","t","u","2","0","2","4","!","T","P",
      "M","2","W","i","l","l","R","e","p","l","a","c","e","@","I","n","i","t","i","a","l","B",
      "o","o","t","#","S","e","c","u","r","e">>
k_name == <<"n","a","m","e">>
k_size == <<"s","i","z","e">>
w_root == <<"r","o","o","t">>
w_swap == <<"s","w","a","p">>
w_90 == <<"9","0","%">>
w_10 == <<"1","0","%">>
w_tpm2_tools == <<"t","p","m","2","-","t","o","o","l","s">>
k_write_files == <<"w","r","i","t","e","_","f","i","l","e","s">>
k_path == <<"p","a","t","h">>
k_content == <<"c","o","n","t","e","n","t">>
p_setup_nix ==
    <<"/","u","s","r","/","l","o","c","a","l","/","b","i","n","/","s","e","t","u","p","-","n",
      "i","x","-","m","u","l","t","i","u","s","e","r">>
p_enroll_tpm2 ==
    <<"/","u","s","r","/","l","o","c","a","l","/","b","i","n","/","e","n","r","o","l","l","-",
      "t","p","m","2","-","l","u","k","s">>
p_first_boot ==
    <<"/","e","t","c","/","s","y","s","t","e","m","d","/","s","y","s","t","e","m","/","f","i",
      "r","s","t","-","b","o","o","t","-","s","e","t","u","p",".","s","e","r","v","i","c","e">>
s_recovery_key == <<"l","u","k","s","-","r","e","c","o","v","e","r","y","-","k","e","y","-">>
s_cryptsetup_luksAddKey ==
    <<"c","r","y","p","t","s","e","t","u","p"," ","l","u","k","s","A","d","d","K","e","y">>

Raised(lines) == [raised |-> TRUE, lines |-> lines]
Printed(lines) == [raised |-> FALSE, lines |-> lines]

\* autoinstall[key] raises for a str or a list that holds the key
NoItem(autoinstall, key) == PyIn(key, autoinstall) /\ autoinstall.t # "dict"

\* lines 38-47
CheckSource(autoinstall) ==
    IF ~PyIn(k_source, autoinstall) THEN Printed(<<"No source configuration">>)
    ELSE IF NoItem(autoinstall, k_source) \/ autoinstall.v[k_source].t # "dict" THEN Raised(<<>>)
    ELSE IF PyEq(Get(autoinstall.v[k_source], k_id), PyStr(w_ubuntu_server)) THEN Printed(<<>>)
    ELSE Printed(<<"Invalid source configuration">>)

\* lines 49-61
CheckInteractive(autoinstall) ==
    IF ~PyIn(k_interactive_sections, autoinstall)
    THEN Printed(<<"No interactive sections configured">>)
    ELSE IF NoItem(autoinstall, k_interactive_sections)
            \/ ~CanIn(autoinstall.v[k_interactive_sections])
    THEN Raised(<<>>)
    ELSE IF PyIn(k_identity, autoinstall.v[k_interactive_sections]) THEN Printed(<<>>)
    ELSE Printed(<<"Identity not in interactive sections">>)

\* lines 68-82, on the items of storage['config']
CheckLuks(items) ==
    LET luks == FirstWith(items, k_type, dm_crypt)
    IN  IF luks = -1 THEN Raised(<<>>)
        ELSE IF luks = 0 THEN Printed(<<"No LUKS encryption found">>)
        ELSE IF PyEq(Get(items[luks], k_passphrase), PyStr(temporary_password))
        THEN Printed(<<>>)
        ELSE Printed(<<"Temporary password missing or incorrect">>)

\* lines 84-90
CheckLvm(items) ==
    LET lvm == FirstWith(items, k_type, lvm_volgroup)
    IN  IF lvm = -1 THEN Raised(<<>>)
        ELSE IF lvm = 0 THEN Printed(<<"No LVM configuration found">>)
        ELSE Printed(<<>>)

\* lines 96-103: an lvm_partition item has this name and this size
PartitionFound(items, name, size) ==
    \E i \in 1..Len(items) :
        /\ PyEq(Get(items[i], k_type), PyStr(lvm_partition))
        /\ PyEq(Get(items[i], k_name), PyStr(name))
        /\ PyEq(Get(items[i], k_size), PyStr(size))

\* lines 92-112
CheckSizes(items) ==
    IF FirstNoGet(items) <= Len(items) THEN Raised(<<>>)
    ELSE Printed((IF PartitionFound(items, w_root, w_90) THEN <<>>
                  ELSE <<"Root partition not configured as 90%">>)
                 \o (IF PartitionFound(items, w_swap, w_10) THEN <<>>
                     ELSE <<"Swap partition not configured as 10%">>))

\* the results of checks made one after the other: the lines printed until
\* one of them raises
RECURSIVE Chain(_)
Chain(rs) ==
    IF rs = <<>> THEN Printed(<<>>)
    ELSE IF Head(rs).raised THEN Head(rs)
    ELSE LET rest == Chain(Tail(rs))
         IN  [raised |-> rest.raised, lines |-> Head(rs).lines \o rest.lines]

\* lines 63-112
CheckStorage(autoinstall) ==
    IF ~PyIn(k_storage, autoinstall) THEN Printed(<<>>)
    ELSE IF NoItem(autoinstall, k_storage) \/ ~CanIn(autoinstall.v[k_storage]) THEN Raised(<<>>)
    ELSE IF ~PyIn(k_config, autoinstall.v[k_storage]) THEN Printed(<<>>)
    ELSE IF NoItem(autoinstall.v[k_storage], k_config)
            \/ ~CanIter(autoinstall.v[k_storage].v[k_config])
    THEN Raised(<<>>)
    ELSE LET items == Iter(autoinstall.v[k_storage].v[k_config])
         IN  Chain(<<CheckLuks(items), CheckLvm(items), CheckSizes(items)>>)

\* lines 114-120
CheckIdentity(autoinstall) ==
    IF PyIn(k_identity, autoinstall) THEN Printed(<<>>)
    ELSE Printed(<<"No identity section">>)

\* lines 122-133
CheckPackages(autoinstall) ==
    IF ~PyIn(k_packages, autoinstall) THEN Printed(<<>>)
    ELSE IF NoItem(autoinstall, k_packages) \/ ~CanIn(autoinstall.v[k_packages]) THEN Raised(<<>>)
    ELSE IF PyIn(w_tpm2_tools, autoinstall.v[k_packages])
            \/ PyIn(s_systemd_cryptenroll, autoinstall.v[k_packages])
    THEN Printed(<<>>)
    ELSE Printed(<<"TPM2 packages missing">>)

\* `if 'user-data' in autoinstall: ... if 'write_files' in user_data:`
\* yields "none" when the block is skipped, "raised", or "files"
WriteFiles(autoinstall) ==
    IF ~PyIn(k_user_data, autoinstall) THEN "none"
    ELSE IF NoItem(autoinstall, k_user_data) \/ ~CanIn(autoinstall.v[k_user_data]) THEN "raised"
    ELSE IF ~PyIn(k_write_files, autoinstall.v[k_user_data]) THEN "none"
    ELSE IF NoItem(autoinstall.v[k_user_data], k_write_files)
            \/ ~CanIter(autoinstall.v[k_user_data].v[k_write_files])
    THEN "raised"
    ELSE "files"

Files(autoinstall) == Iter(autoinstall.v[k_user_data].v[k_write_files])

\* lines 135-162: a file of write_files with this path, or the failure line
CheckScript(autoinstall, path, line) ==
    IF WriteFiles(autoinstall) = "none" THEN Printed(<<>>)
    ELSE IF WriteFiles(autoinstall) = "raised" THEN Raised(<<>>)
    ELSE LET f == FirstWith(Files(autoinstall), k_path, path)
         IN  IF f = -1 THEN Raised(<<>>)
             ELSE IF f = 0 THEN Printed(<<line>>)
             ELSE Printed(<<>>)

\* lines 164-182
CheckLateCommands(autoinstall) ==
    IF ~PyIn(k_late_commands, autoinstall) THEN Printed(<<>>)
    ELSE IF NoItem(autoinstall, k_late_commands) \/ ~CanIter(autoinstall.v[k_late_commands])
    THEN Raised(<<>>)
    ELSE LET entries == Iter(autoinstall.v[k_late_commands])
             commands_str == Join([i \in 1..Len(entries) |-> entries[i].v])
         IN  IF \E i \in 1..Len(entries) : entries[i].t # "str" THEN Raised(<<>>)
             ELSE IF Contains(commands_str, s_recovery_key)
                     /\ Contains(commands_str, s_cryptsetup_luksAddKey)
             THEN Printed(<<>>)
             ELSE Printed(<<"No recovery key generation found">>)

\* lines 190-194 and 201-205: the script with this path, if there is one, has
\* a content the `in` test is defined for
CheckContent(autoinstall, path) ==
    LET f == FirstWith(Files(autoinstall), k_path, path)
    IN  IF f = -1 \/ (f > 0 /\ ~CanIn(GetOr(Files(autoinstall)[f], k_content, PyStr(<<>>))))
        THEN Raised(<<>>)
        ELSE Printed(<<>>)

\* lines 184-217
CheckFeatures(autoinstall) ==
    IF WriteFiles(autoinstall) = "none" THEN Printed(<<>>)
    ELSE IF WriteFiles(autoinstall) = "raised" THEN Raised(<<>>)
    ELSE Chain(<<CheckContent(autoinstall, p_enroll_tpm2),
                 CheckContent(autoinstall, p_setup_nix),
                 CheckScript(autoinstall, p_first_boot, "First-boot setup service missing")>>)

\* lines 38-217 in their order
CheckRequirements(autoinstall) ==
    Chain(<<CheckSource(autoinstall),
            CheckInteractive(autoinstall),
            CheckStorage(autoinstall),
            CheckIdentity(autoinstall),
            CheckPackages(autoinstall),
            CheckScript(autoinstall, p_setup_nix, "Nix installation script missing"),
            CheckScript(autoinstall, p_enroll_tpm2, "TPM2 enrollment script missing"),
            CheckLateCommands(autoinstall),
            CheckFeatures(autoinstall)>>)

(***************************************************************************)
(* The inputs: the files a run reads.  A file is [file, firstLine, yaml,   *)
(* data]: whether it can be opened, its first line, whether yaml.safe_load *)
(* parses it, and the value it parses to.                                  *)
(***************************************************************************)
w_key_file_k == <<"-","-","k","e","y","-","f","i","l","e","=","/","t","m","p","/","k">>
w_dev_sda3 == <<"/","d","e","v","/","s","d","a","3">>
w_tmp_newkey == <<"/","t","m","p","/","n","e","w","k","e","y">>
w_var_dev == <<"$","D","E","V">>
w_sudo == <<"s","u","d","o">>
w_pw == <<"p","w">>
w_disk == <<"d","i","s","k">>
w_partition == <<"p","a","r","t","i","t","i","o","n">>
w_disk0 == <<"d","i","s","k","0">>
w_part1 == <<"p","a","r","t","1">>
w_part2 == <<"p","a","r","t","2">>
w_missing0 == <<"m","i","s","s","i","n","g","0">>
w_other == <<"o","t","h","e","r">>

File(firstLine, data) == [file |-> "ok", firstLine |-> firstLine, yaml |-> "ok", data |-> data]

\* a file whose document is {autoinstall: section}, under the header line
AutoinstallFile(section) == File(s_cloud_config, PyDict(k_autoinstall :> PyDict(section)))

With(f, k, x) == (k :> x) @@ f

\* an installer section every validator accepts
BaseSection ==
    (k_version :> PyInt(1))
    @@ (k_source :> PyDict(k_id :> PyStr(w_ubuntu_server)))
    @@ (k_interactive_sections :> PyList(<<PyStr(k_identity)>>))
    @@ (k_identity :> PyDict((k_hostname :> PyStr(<<"h">>)) @@ (k_username :> PyStr(<<"u">>))
                             @@ (k_password :> PyStr(<<"p">>))))

LateCommands(cmds) == PyList([i \in 1..Len(cmds) |-> PyStr(cmds[i])])

\* command entries: a head, up to MaxArgs argument words, and a wrapper
Heads == {<<s_systemd_cryptenroll>>, <<s_cryptsetup, s_luksAddKey>>,
          <<w_sudo, s_systemd_cryptenroll>>,
          <<s_echo, w_pw, <<"|">>, s_systemd_cryptenroll>>}

ArgWords == {w_key_file_k, s_key_file_dash, w_dev_sda3, w_tmp_newkey,
             s_tpm2_device_list, w_var_dev}

ArgSeqs == UNION {[1..n -> ArgWords] : n \in 0..MaxArgs}

Wrappers == {"none", "curtin", "bash", "curtin-bash"}

Wrap(w, text) ==
    CASE w = "none" -> text
      [] w = "curtin" -> s_curtin \o <<" ">> \o text
      [] w = "bash" -> s_bash_c \o <<" ", "'">> \o text \o <<"'">>
      [] OTHER -> s_curtin \o <<" ">> \o s_bash_c \o <<" ", "\"">> \o text \o <<"\"">>

Cmds == {Wrap(w, Join(h \o a)) : w \in Wrappers, h \in Heads, a \in ArgSeqs}

CmdFiles == {AutoinstallFile(With(BaseSection, k_late_commands, LateCommands(<<c>>))) : c \in Cmds}

\* files that differ in the header line, the parse, the top-level keys and
\* the version
FirstLines == {s_cloud_config, s_cloud_config \o <<"X">>, <<" ">> \o s_cloud_config \o <<" ">>,
               <<"#", " ", "x">>}

BadCommand == Join(<<s_systemd_cryptenroll, w_key_file_k, w_dev_sda3>>)

Versions == {PyInt(1), PyInt(2), PyBool(TRUE), PyStr(<<"1">>)}

StructSections ==
    LET vs == {BaseSection} \cup {With(BaseSection, k_version, x) : x \in Versions}
                 \cup {[k \in DOMAIN BaseSection \ {k_version} |-> BaseSection[k]]}
    IN  vs \cup {With(sec, k_late_commands, LateCommands(<<BadCommand>>)) : sec \in vs}

Datas ==
    {PyNone, EmptyDict, PyDict(w_other :> PyInt(1))}
    \cup {PyDict(k_autoinstall :> PyDict(sec)) : sec \in StructSections}
    \cup {PyDict((k_autoinstall :> PyDict(sec)) @@ (w_other :> PyInt(1))) : sec \in StructSections}

StructFiles ==
    {File(l, d) : l \in FirstLines, d \in Datas}
    \cup {[File(l, PyNone) EXCEPT !.yaml = "error"] : l \in FirstLines}
    \cup {[File(<<>>, PyNone) EXCEPT !.file = "missing"]}

\* the examples of the documentation
Example2 == Join(<<s_systemd_cryptenroll, w_key_file_k, w_dev_sda3>>)
Example3 == Join(<<s_cryptsetup, s_luksAddKey, w_dev_sda3, w_tmp_newkey>>)
Example4 == Join(<<s_cryptsetup, s_luksAddKey, s_key_file_dash, w_tmp_newkey, w_dev_sda3>>)

ExampleFiles ==
    {AutoinstallFile(With(BaseSection, k_late_commands, LateCommands(<<c>>))) :
        c \in {Example2, Example3, Example4}}
    \cup {AutoinstallFile(With(BaseSection, k_late_commands, LateCommands(<<Example4, Example2>>))),
          AutoinstallFile(With(BaseSection, k_user_data,
                               PyDict(k_runcmd :> PyList(<<PyInt(1), PyStr(Example2)>>))))}

\* storage items: with or without 'type', with or without 'id', and with no
\* reference, a device that is an id, a device that is no id, or a device and
\* a volume that are no ids
ItemType == {<<>>, k_type :> PyStr(w_disk)}

ItemId == {<<>>, k_id :> PyStr(<<"a">>)}

ItemRefs == {<<>>, k_device :> PyStr(<<"a">>), k_device :> PyStr(<<"z">>),
             (k_device :> PyStr(<<"z">>)) @@ (k_volume :> PyStr(<<"z">>))}

Items == {PyDict(t @@ i @@ r) : t \in ItemType, i \in ItemId, r \in ItemRefs}

ItemSeqs == UNION {[1..n -> Items] : n \in 0..MaxItems}

StorageFile(items) ==
    AutoinstallFile(With(BaseSection, k_storage, PyDict(k_config :> PyList(items))))

Example5 ==
    <<PyDict((k_id :> PyStr(w_disk0)) @@ (k_type :> PyStr(w_disk))),
      PyDict((k_id :> PyStr(w_part1)) @@ (k_type :> PyStr(w_partition))
             @@ (k_device :> PyStr(w_disk0))),
      PyDict((k_id :> PyStr(w_part2)) @@ (k_type :> PyStr(w_partition))
             @@ (k_device :> PyStr(w_missing0)))>>

StorageFiles == {StorageFile(items) : items \in ItemSeqs \cup {Example5}}

\* sections with a violation in any of the six sections the strict validator
\* checks, from none to all six at once
BadParts ==
    (k_version :> PyInt(2))
    @@ (k_source :> EmptyDict)
    @@ (k_late_commands :> PyList(<<PyInt(5), PyStr(Example2)>>))
    @@ (k_packages :> PyList(<<PyInt(1)>>))
    @@ (k_storage :> PyDict(k_config :> PyList(<<PyDict(k_id :> PyStr(<<"a">>))>>)))
    @@ (k_identity :> PyDict(k_hostname :> PyStr(<<"h">>)))

ManySections ==
    {[k \in K |-> BadParts[k]] @@ BaseSection : K \in SUBSET DOMAIN BadParts}

ManyFiles ==
    {AutoinstallFile(sec) : sec \in ManySections}
    \cup {AutoinstallFile(With(BaseSection, k_late_commands,
                               LateCommands(<<Example2, Example3, Example4>>)))}

\* entries of the form 'bash -c' whose payload cannot be extracted: the
\* closing quote is missing, or there is no quote at all; alone or after
\* 'curtin in-target --'
w_a_and_b == <<"a", "&", "&", "b">>

Payloads == {BadCommand, w_a_and_b}

Unparseable ==
    {pre \o s_bash_c \o <<" ">> \o q \o p :
        pre \in {<<>>, s_curtin \o <<" ">>}, q \in {<<>>, <<"\"">>}, p \in Payloads}

UnwrapFiles ==
    {AutoinstallFile(With(BaseSection, k_late_commands, LateCommands(<<c>>))) : c \in Unparseable}

\* systemd-cryptenroll invocations inside 'curtin in-target -- bash -c "..."',
\* the form check_systemd_cryptenroll is reached with: the --tpm2-device
\* option with the value auto, list, foo, or without a value, a PCR option
\* and a device
w_tpm2_device_foo == s_tpm2_device \o <<"=", "f", "o", "o">>
w_tpm2_pcrs_0_7 == s_tpm2_pcrs \o <<"=", "0", "+", "7">>

TpmWords == {s_tpm2_device_auto, s_tpm2_device_list, s_tpm2_device, w_tpm2_device_foo,
             w_tpm2_pcrs_0_7, w_dev_sda3}

TpmArgSeqs == UNION {[1..n -> TpmWords] : n \in 1..MaxArgs}

TpmFiles ==
    {AutoinstallFile(With(BaseSection, k_late_commands,
         LateCommands(<<Wrap("curtin-bash", Join(<<s_systemd_cryptenroll>> \o a))>>))) :
        a \in TpmArgSeqs}

\* lines with the operators && and ||: at the end of the line, between two
\* commands, with and without whitespace around them, and two on one line
Txt(a, op, b) == a \o op \o b

OperatorLines ==
    {Txt(<<"a", " ">>, op, <<>>) : op \in {s_and, s_or}}
    \cup {Txt(<<"a", " ">>, op, <<" ", "b">>) : op \in {s_and, s_or}}
    \cup {Txt(<<"a">>, op, <<"b">>) : op \in {s_and, s_or}}
    \cup {Txt(<<"a", " ">>, op1, <<" ", "b">>) \o Txt(<<>>, op2, <<"c">>) :
             op1 \in {s_and, s_or}, op2 \in {s_and, s_or}}
    \cup {Txt(<<"a", " ">>, op1, <<" ", "b", " ">>) \o Txt(<<>>, op2, <<>>) :
             op1 \in {s_and, s_or}, op2 \in {s_and, s_or}}

OperatorEntries == {Wrap(w, l) : w \in Wrappers, l \in OperatorLines}

OperatorFiles ==
    {AutoinstallFile(With(BaseSection, k_late_commands, LateCommands(<<c>>))) :
        c \in OperatorEntries}

\* 'echo' lines with one pipe, two pipes, a pipe inside quotes, a doubled
\* pipe and a pipe at the end
w_echo_a == s_echo \o <<" ", "a", " ">>
w_echo_b == <<" ">> \o s_echo \o <<" ", "b", " ">>

PipeLines ==
    {w_echo_a \o <<"|">> \o w_echo_b,
     w_echo_a \o <<"|">> \o w_echo_b \o <<"|", " ">> \o BadCommand,
     w_echo_a \o <<"|">> \o w_echo_b \o <<"|">> \o w_echo_b \o <<"|", " ">> \o BadCommand,
     s_echo \o <<" ", "'", "a", "|", "b", "'", " ", "|", " ">> \o BadCommand,
     w_echo_a \o <<"|", "|">> \o w_echo_b \o <<"|", " ">> \o BadCommand,
     w_echo_a \o <<"|">>}

PipeEntries == {Wrap(w, l) : w \in Wrappers, l \in PipeLines}

PipeFiles ==
    {AutoinstallFile(With(BaseSection, k_late_commands, LateCommands(<<c>>))) :
        c \in PipeEntries}

\* documents whose nested values have another type than the validators
\* expect: the installer section, the storage section, the storage config,
\* a storage item, the late-commands
OddValues == {PyNone, PyStr(<<"x">>), PyList(<<>>), PyInt(5)}

TypedDatas ==
    {PyDict(k_autoinstall :> x) : x \in OddValues}
    \cup {PyDict(k_autoinstall :> PyDict(With(BaseSection, k_storage, x))) : x \in OddValues}
    \cup {PyDict(k_autoinstall :> PyDict(With(BaseSection, k_storage, PyDict(k_config :> x)))) :
             x \in OddValues \cup {PyList(<<y>>) : y \in OddValues}}
    \cup {PyDict(k_autoinstall :> PyDict(With(BaseSection, k_late_commands, x))) :
             x \in {PyNone, PyStr(<<"a", "b">>), PyInt(5), EmptyDict}}

TypedFiles == {File(s_cloud_config, d) : d \in TypedDatas}

AllTools == {"commands", "strict", "step10", "yaml", "autoinstall"}

Inputs ==
    (AllTools \X (StructFiles \cup ExampleFiles \cup TypedFiles \cup ManyFiles))
    \cup ({"commands", "step10"} \X (CmdFiles \cup UnwrapFiles \cup OperatorFiles
                                      \cup PipeFiles))
    \cup ({"strict"} \X StorageFiles)
    \cup ({"step10"} \X TpmFiles)

\* the runs without an argument: validate-yaml.py and validate-autoinstall.py
\* then read 'autoinstall.yml', validate-step10-tpm-early.py reads its own
\* file in every case
NoPathInputs == AllTools \X ExampleFiles

(***************************************************************************)
(* validate-commands.py: validate_autoinstall_commands(file_path).         *)
(***************************************************************************)
\* what a run leaves: its findings, what it printed for a fatal problem, its
\* result ("pass", "fail", or "crash" for an uncaught exception)
Outcome == [errors |-> errors, warnings |-> warnings, result |-> result, printed |-> printed]

NoRun == [errors |-> <<>>, warnings |-> <<>>, result |-> "none", printed |-> <<>>]

\* lines 219-230: a new validator, the file is read, the header is checked
CmdOpen ==
    /\ tool = "commands" /\ pc = "start" /\ Len(argv) + 1 >= 2
    /\ warnings' = NewValidator.warnings
    /\ IF doc.file = "missing"
       THEN /\ errors' = Append(NewValidator.errors, E_ReadFile)
            /\ pc' = "report"
       ELSE /\ errors' = IF HeaderMissing(doc) THEN Append(NewValidator.errors, E_NoHeader)
                         ELSE NewValidator.errors
            /\ pc' = "extract"
    /\ commands' = <<>> /\ idx' = 1 /\ printed' = <<>> /\ result' = "none"
    /\ parsed' = FALSE /\ checked' = <<>>
    /\ UNCHANGED <<tool, doc, argv, exit_code, all_ok, prev>>

\* line 232: commands = validator.extract_commands_from_yaml(content)
CmdExtract ==
    /\ tool = "commands" /\ pc = "extract"
    /\ LET r == extract_commands_from_yaml(doc)
       IN  /\ commands' = r.cmds
           /\ errors' = IF r.raised THEN Append(errors, E_ParseYaml) ELSE errors
           /\ pc' = IF r.cmds = <<>> THEN "report" ELSE "validate"
    /\ parsed' = TRUE
    /\ UNCHANGED <<tool, doc, argv, exit_code, all_ok, warnings, idx, printed, result, prev, checked>>

\* lines 236-237: one turn of the loop over the commands
CmdValidate ==
    /\ tool = "commands" /\ pc = "validate" /\ idx <= Len(commands)
    /\ LET v == validate_command([errors |-> errors, warnings |-> warnings], commands[idx][2])
       IN  /\ errors' = v.errors
           /\ warnings' = v.warnings
    /\ checked' = Append(checked, idx)
    /\ idx' = idx + 1
    /\ pc' = IF idx = Len(commands) THEN "report" ELSE "validate"
    /\ UNCHANGED <<tool, doc, argv, exit_code, all_ok, commands, printed, result, prev, parsed>>

\* a report in which a warning fails the run as well
CmdReportWarningsFail ==
    /\ tool = "commands" /\ pc = "report"
    /\ result' = IF Len(errors) = 0 /\ Len(warnings) = 0 THEN "pass" ELSE "fail"
    /\ pc' = "done"
    /\ UNCHANGED <<tool, doc, argv, exit_code, all_ok, errors, warnings, commands, idx, printed, prev, parsed,
                   checked>>

\* lines 242-256: the report and the return value
CmdReport ==
    /\ tool = "commands" /\ pc = "report"
    /\ result' = IF Len(errors) = 0 THEN "pass" ELSE "fail"
    /\ pc' = "done"
    /\ UNCHANGED <<tool, doc, argv, exit_code, all_ok, errors, warnings, commands, idx, printed, prev, parsed, checked>>

(***************************************************************************)
(* validate-autoinstall-strict.py: validate_autoinstall_strict(file_path). *)
(* An exception the function does not catch ends the process with a        *)
(* traceback: result "crash".                                              *)
(***************************************************************************)
\* readline().strip() != '#cloud-config'
FirstLineWrong(d) == Strip(d.firstLine) # s_cloud_config

Section(d) == d.data.v[k_autoinstall]

\* a fatal problem is printed and the function returns False
Fatal(msg) ==
    /\ printed' = <<msg>>
    /\ result' = "fail"
    /\ pc' = "done"

Crash ==
    /\ result' = "crash"
    /\ pc' = "done"
    /\ printed' = <<>>

\* lines 116-130: the header line and the parse
StrictLoad ==
    /\ tool = "strict" /\ pc = "start" /\ Len(argv) + 1 >= 2
    /\ errors' = <<>> /\ warnings' = <<>> /\ commands' = <<>> /\ idx' = 1
    /\ checked' = <<>>
    /\ parsed' = (doc.file = "ok" /\ ~FirstLineWrong(doc))
    /\ IF doc.file = "missing" THEN Fatal("File reading error")
       ELSE IF FirstLineWrong(doc) THEN Fatal("Missing #cloud-config header")
       ELSE IF doc.yaml = "error" THEN Fatal("YAML parsing error")
       ELSE pc' = "top" /\ printed' = <<>> /\ result' = "none"
    /\ UNCHANGED <<tool, doc, argv, exit_code, all_ok, prev>>

\* lines 132-149: the top-level keys
StrictTopLevel ==
    /\ tool = "strict" /\ pc = "top"
    /\ IF ~Truthy(doc.data) THEN Fatal("Empty configuration")
       ELSE IF ~CanIn(doc.data) THEN Crash
       ELSE IF ~PyIn(k_autoinstall, doc.data) THEN Fatal("Missing 'autoinstall' top-level key")
       ELSE IF doc.data.t # "dict" THEN Crash
       ELSE IF DOMAIN doc.data.v # {k_autoinstall} THEN Fatal("Invalid top-level keys")
       ELSE pc' = "version" /\ UNCHANGED <<printed, result>>
    /\ UNCHANGED <<tool, doc, argv, exit_code, all_ok, errors, warnings, commands, idx, prev, parsed, checked>>

\* lines 151-155
VersionErrors(autoinstall) ==
    IF ~PyIn(k_version, autoinstall) THEN <<"Missing required 'version' field">>
    ELSE IF ~PyEq(autoinstall.v[k_version], PyInt(1))
         THEN <<"Invalid version: " \o Show(autoinstall.v[k_version]) \o " (must be 1)">>
    ELSE <<>>

\* a version check after which a run with a version Error goes to the report
StrictVersionStops ==
    /\ tool = "strict" /\ pc = "version"
    /\ IF ~CanIn(Section(doc)) \/ (PyIn(k_version, Section(doc)) /\ Section(doc).t # "dict")
       THEN Crash /\ UNCHANGED errors
       ELSE /\ errors' = errors \o VersionErrors(Section(doc))
            /\ pc' = IF VersionErrors(Section(doc)) # <<>> THEN "report" ELSE "source"
            /\ UNCHANGED <<printed, result>>
    /\ UNCHANGED <<tool, doc, argv, exit_code, all_ok, warnings, commands, idx, prev, parsed, checked>>

StrictVersion ==
    /\ tool = "strict" /\ pc = "version"
    /\ IF ~CanIn(Section(doc)) \/ (PyIn(k_version, Section(doc)) /\ Section(doc).t # "dict")
       THEN Crash /\ UNCHANGED errors
       ELSE /\ errors' = errors \o VersionErrors(Section(doc))
            /\ pc' = "source"
            /\ UNCHANGED <<printed, result>>
    /\ UNCHANGED <<tool, doc, argv, exit_code, all_ok, warnings, commands, idx, prev, parsed, checked>>

\* lines 157-163
SourceErrors(autoinstall) ==
    IF ~PyIn(k_source, autoinstall) THEN <<>>
    ELSE IF autoinstall.v[k_source].t # "dict" THEN <<"Source must be a dictionary">>
    ELSE IF ~PyIn(k_id, autoinstall.v[k_source]) THEN <<"Source missing required 'id' field">>
    ELSE <<>>

\* the sections below line 156 are reached with a dict, or with a str or a
\* list that does not hold 'version'; autoinstall[key] of a str or a list
\* raises TypeError
SectionCrash(key) == PyIn(key, Section(doc)) /\ Section(doc).t # "dict"

StrictSource ==
    /\ tool = "strict" /\ pc = "source"
    /\ IF SectionCrash(k_source) THEN Crash /\ UNCHANGED errors
       ELSE /\ errors' = errors \o SourceErrors(Section(doc))
            /\ pc' = "late"
            /\ UNCHANGED <<printed, result>>
    /\ UNCHANGED <<tool, doc, argv, exit_code, all_ok, warnings, commands, idx, prev, parsed, checked>>

\* lines 165-168
StrictLateCommands ==
    /\ tool = "strict" /\ pc = "late"
    /\ IF ~PyIn(k_late_commands, Section(doc))
       THEN errors' = errors /\ pc' = "packages" /\ UNCHANGED <<printed, result>>
       ELSE IF SectionCrash(k_late_commands) THEN Crash /\ UNCHANGED errors
       ELSE LET r == validate_late_commands(Section(doc).v[k_late_commands])
            IN  IF r.crash THEN Crash /\ UNCHANGED errors
                ELSE /\ errors' = errors \o r.errs
                     /\ pc' = "packages"
                     /\ UNCHANGED <<printed, result>>
    /\ UNCHANGED <<tool, doc, argv, exit_code, all_ok, warnings, commands, idx, prev, parsed, checked>>

\* lines 170-173
StrictPackages ==
    /\ tool = "strict" /\ pc = "packages"
    /\ IF ~PyIn(k_packages, Section(doc))
       THEN errors' = errors /\ pc' = "storage" /\ UNCHANGED <<printed, result>>
       ELSE IF SectionCrash(k_packages) THEN Crash /\ UNCHANGED errors
       ELSE /\ errors' = errors \o validate_packages(Section(doc).v[k_packages])
            /\ pc' = "storage"
            /\ UNCHANGED <<printed, result>>
    /\ UNCHANGED <<tool, doc, argv, exit_code, all_ok, warnings, commands, idx, prev, parsed, checked>>

\* lines 175-178
StrictStorage ==
    /\ tool = "strict" /\ pc = "storage"
    /\ IF ~PyIn(k_storage, Section(doc))
       THEN errors' = errors /\ pc' = "identity" /\ UNCHANGED <<printed, result>>
       ELSE IF SectionCrash(k_storage) THEN Crash /\ UNCHANGED errors
       ELSE LET r == validate_storage(Section(doc).v[k_storage])
            IN  IF r.crash THEN Crash /\ UNCHANGED errors
                ELSE /\ errors' = errors \o r.errs
                     /\ pc' = "identity"
                     /\ UNCHANGED <<printed, result>>
    /\ UNCHANGED <<tool, doc, argv, exit_code, all_ok, warnings, commands, idx, prev, parsed, checked>>

\* lines 180-186
IdentityErrors(identity) ==
    LET fields == <<k_hostname, k_username, k_password>>
        missing == SelectSeq(fields, LAMBDA f : ~PyIn(f, identity))
    IN  [i \in 1..Len(missing) |-> "Identity missing required field: " \o Text(missing[i])]

StrictIdentity ==
    /\ tool = "strict" /\ pc = "identity"
    /\ IF ~PyIn(k_identity, Section(doc))
       THEN errors' = errors /\ pc' = "report" /\ UNCHANGED <<printed, result>>
       ELSE IF SectionCrash(k_identity) \/ ~CanIn(Section(doc).v[k_identity])
       THEN Crash /\ UNCHANGED errors
       ELSE /\ errors' = errors \o IdentityErrors(Section(doc).v[k_identity])
            /\ pc' = "report"
            /\ UNCHANGED <<printed, result>>
    /\ UNCHANGED <<tool, doc, argv, exit_code, all_ok, warnings, commands, idx, prev, parsed, checked>>

\* lines 188-196
StrictReport ==
    /\ tool = "strict" /\ pc = "report"
    /\ result' = IF Len(errors) > 0 THEN "fail" ELSE "pass"
    /\ pc' = "done"
    /\ UNCHANGED <<tool, doc, argv, exit_code, all_ok, errors, warnings, commands, idx, printed, prev, parsed, checked>>

(***************************************************************************)
(* validate-step10-tpm-early.py: validate_yaml_file(filename) and main().  *)
(***************************************************************************)
s10_NewValidator == [errors |-> <<>>, warnings |-> <<>>]

\* lines 167-168: the entries of data['autoinstall']['late-commands'];
\* raised stands for the exception the except branch turns into an error
s10_entries(d) ==
    IF ~CanIn(d.data) THEN [raised |-> TRUE, entries |-> <<>>]
    ELSE IF ~PyIn(k_autoinstall, d.data) THEN [raised |-> FALSE, entries |-> <<>>]
    ELSE IF ~CanGet(d.data, k_autoinstall) \/ ~CanIn(d.data.v[k_autoinstall])
    THEN [raised |-> TRUE, entries |-> <<>>]
    ELSE IF ~PyIn(k_late_commands, d.data.v[k_autoinstall])
    THEN [raised |-> FALSE, entries |-> <<>>]
    ELSE IF ~CanGet(d.data.v[k_autoinstall], k_late_commands)
            \/ ~CanIter(d.data.v[k_autoinstall].v[k_late_commands])
    THEN [raised |-> TRUE, entries |-> <<>>]
    ELSE [raised |-> FALSE, entries |-> Iter(d.data.v[k_autoinstall].v[k_late_commands])]

\* lines 163-168 and 180-181, and 204 of main(): the file is opened and
\* parsed, the entries are found
S10Load ==
    /\ tool = "step10" /\ pc = "start"
    /\ warnings' = s10_NewValidator.warnings
    /\ idx' = 1 /\ printed' = <<>> /\ result' = "none" /\ checked' = <<>>
    /\ parsed' = (doc.file = "ok")
    /\ IF doc.file = "missing" \/ doc.yaml = "error" \/ s10_entries(doc).raised
       THEN /\ errors' = Append(s10_NewValidator.errors, "Failed to parse YAML")
            /\ commands' = <<>>
            /\ pc' = "report"
       ELSE LET es == s10_entries(doc).entries
            IN  /\ errors' = s10_NewValidator.errors
                /\ commands' = [i \in 1..Len(es) |->
                                   IF es[i].t = "str" THEN <<"late-command", es[i].v>>
                                   ELSE <<"not-str", <<>>>>]
                /\ pc' = IF es = <<>> THEN "report" ELSE "validate"
    /\ UNCHANGED <<tool, doc, argv, exit_code, all_ok, prev>>

\* lines 171-175: one turn of the loop over the entries
S10Validate ==
    /\ tool = "step10" /\ pc = "validate" /\ idx <= Len(commands)
    /\ IF commands[idx][1] = "late-command"
       THEN LET v == s10_validate_command([errors |-> errors, warnings |-> warnings],
                                          Strip(commands[idx][2]), 140 + (idx - 1))
            IN  /\ errors' = v.errors
                /\ warnings' = v.warnings
                /\ checked' = Append(checked, idx)
       ELSE UNCHANGED <<errors, warnings, checked>>
    /\ idx' = idx + 1
    /\ pc' = IF idx = Len(commands) THEN "report" ELSE "validate"
    /\ UNCHANGED <<tool, doc, argv, exit_code, all_ok, commands, printed, result, prev, parsed>>

\* lines 206-227: the report and the exit code of main()
S10Report ==
    /\ tool = "step10" /\ pc = "report"
    /\ result' = IF errors # <<>> THEN "fail" ELSE "pass"
    /\ pc' = "done"
    /\ UNCHANGED <<tool, doc, argv, exit_code, all_ok, errors, warnings, commands, idx, printed, prev,
                   parsed, checked>>

(***************************************************************************)
(* validate-yaml.py: validate_yaml(file_path) and the exit code.  Every    *)
(* exception is caught, printed, and turned into the result False.         *)
(***************************************************************************)
\* lines 12-22: the header line and the parse
YamlLoad ==
    /\ tool = "yaml" /\ pc = "start"
    /\ errors' = <<>> /\ warnings' = <<>> /\ commands' = <<>> /\ idx' = 1
    /\ checked' = <<>>
    /\ parsed' = (doc.file = "ok" /\ ~FirstLineWrong(doc))
    /\ IF doc.file = "missing" THEN Fatal("Error")
       ELSE IF FirstLineWrong(doc) THEN Fatal("Missing #cloud-config header")
       ELSE IF doc.yaml = "error" THEN Fatal("YAML parsing error")
       ELSE pc' = "structure" /\ printed' = <<>> /\ result' = "none"
    /\ UNCHANGED <<tool, doc, argv, exit_code, all_ok, prev>>

\* lines 24-56, and 64-68 of the script
YamlStructure ==
    /\ tool = "yaml" /\ pc = "structure"
    /\ IF ~CanIn(doc.data) THEN Fatal("Error")
       ELSE IF ~PyIn(k_autoinstall, doc.data) THEN Fatal("Missing 'autoinstall' top-level key")
       ELSE IF ~CanGet(doc.data, k_autoinstall) \/ ~CanIn(Section(doc)) THEN Fatal("Error")
       ELSE IF ~PyIn(k_version, Section(doc)) THEN Fatal("Missing 'version' field")
       ELSE IF SummaryRaises(Section(doc)) THEN Fatal("Error")
       ELSE /\ result' = "pass"
            /\ pc' = "done"
            /\ UNCHANGED printed
    /\ UNCHANGED <<tool, doc, argv, exit_code, all_ok, errors, warnings, commands, idx, prev, parsed, checked>>

(***************************************************************************)
(* validate-autoinstall.py: validate_autoinstall(file_path) and the exit   *)
(* code.  The script catches every exception and exits with 1; it does the *)
(* same when the function returns the plain False of a fatal problem.      *)
(***************************************************************************)
\* lines 13-29: the header line, the parse, the top-level key
AutoLoad ==
    /\ tool = "autoinstall" /\ pc = "start"
    /\ errors' = <<>> /\ warnings' = <<>> /\ commands' = <<>> /\ idx' = 1
    /\ checked' = <<>>
    /\ parsed' = (doc.file = "ok" /\ ~FirstLineWrong(doc))
    /\ all_ok' = TRUE
    /\ IF doc.file = "missing" THEN Fatal("Validation failed")
       ELSE IF FirstLineWrong(doc) THEN Fatal("Missing #cloud-config header")
       ELSE IF doc.yaml = "error" \/ ~CanIn(doc.data) THEN Fatal("Validation failed")
       ELSE IF ~PyIn(k_autoinstall, doc.data) THEN Fatal("Missing 'autoinstall' top-level key")
       ELSE IF ~CanGet(doc.data, k_autoinstall) THEN Fatal("Validation failed")
       ELSE pc' = "version" /\ printed' = <<>> /\ result' = "none"
    /\ UNCHANGED <<tool, doc, argv, exit_code, prev>>

\* lines 31-36
AutoVersion ==
    /\ tool = "autoinstall" /\ pc = "version"
    /\ IF ~CanIn(Section(doc)) \/ NoItem(Section(doc), k_version)
       THEN Fatal("Validation failed") /\ UNCHANGED all_ok
       ELSE /\ IF ~PyIn(k_version, Section(doc))
               THEN all_ok' = FALSE /\ printed' = Append(printed, "Missing 'version' field")
               ELSE UNCHANGED <<all_ok, printed>>
            /\ pc' = "requirements"
            /\ UNCHANGED result
    /\ UNCHANGED <<tool, doc, argv, exit_code, errors, warnings, commands, idx, prev, parsed, checked>>

\* lines 38-219
AutoRequirements ==
    /\ tool = "autoinstall" /\ pc = "requirements"
    /\ LET r == CheckRequirements(Section(doc))
       IN  /\ all_ok' = (all_ok /\ r.lines = <<>>)
           /\ IF r.raised
              THEN /\ printed' = printed \o r.lines \o <<"Validation failed">>
                   /\ result' = "fail"
                   /\ pc' = "done"
              ELSE /\ printed' = printed \o r.lines
                   /\ pc' = "exit"
                   /\ UNCHANGED result
    /\ UNCHANGED <<tool, doc, argv, exit_code, errors, warnings, commands, idx, prev, parsed, checked>>

\* lines 227-249
AutoExit ==
    /\ tool = "autoinstall" /\ pc = "exit"
    /\ result' = IF all_ok THEN "pass" ELSE "fail"
    /\ pc' = "done"
    /\ UNCHANGED <<tool, doc, argv, exit_code, all_ok, errors, warnings, commands, idx, printed, prev,
                   parsed, checked>>

(***************************************************************************)
(* The scripts' __main__ blocks: the usage exit and the exit code.  An     *)
(* uncaught exception ends the interpreter with the code 1.                *)
(***************************************************************************)
\* validate-commands.py, lines 259-261
CmdUsage ==
    /\ tool = "commands" /\ pc = "start" /\ Len(argv) + 1 < 2
    /\ printed' = <<"Usage: python3 validate-commands.py <autoinstall.yml>">>
    /\ result' = "usage"
    /\ exit_code' = <<1>>
    /\ pc' = "exited"
    /\ errors' = <<>> /\ warnings' = <<>> /\ commands' = <<>> /\ idx' = 1
    /\ parsed' = FALSE /\ checked' = <<>>
    /\ UNCHANGED <<tool, doc, argv, all_ok, prev>>

\* validate-commands.py, lines 265-268
CmdExit ==
    /\ tool = "commands" /\ pc = "done"
    /\ exit_code' = IF result = "pass" THEN <<0>> ELSE <<1>>
    /\ pc' = "exited"
    /\ UNCHANGED <<tool, doc, argv, all_ok, errors, warnings, commands, idx, printed, result,
                   prev, parsed, checked>>

\* validate-autoinstall-strict.py, lines 199-201
StrictUsage ==
    /\ tool = "strict" /\ pc = "start" /\ Len(argv) + 1 < 2
    /\ printed' = <<"Usage: python3 validate-autoinstall-strict.py <autoinstall.yml>">>
    /\ result' = "usage"
    /\ exit_code' = <<1>>
    /\ pc' = "exited"
    /\ errors' = <<>> /\ warnings' = <<>> /\ commands' = <<>> /\ idx' = 1
    /\ parsed' = FALSE /\ checked' = <<>>
    /\ UNCHANGED <<tool, doc, argv, all_ok, prev>>

\* validate-autoinstall-strict.py, lines 207-212; a traceback ends with 1
StrictExit ==
    /\ tool = "strict" /\ pc = "done"
    /\ exit_code' = IF result = "pass" THEN <<0>> ELSE <<1>>
    /\ pc' = "exited"
    /\ UNCHANGED <<tool, doc, argv, all_ok, errors, warnings, commands, idx, printed, result,
                   prev, parsed, checked>>

\* validate-step10-tpm-early.py, lines 227-230: sys.exit(main())
S10Exit ==
    /\ tool = "step10" /\ pc = "done"
    /\ exit_code' = IF errors # <<>> THEN <<1>> ELSE <<0>>
    /\ pc' = "exited"
    /\ UNCHANGED <<tool, doc, argv, all_ok, errors, warnings, commands, idx, printed, result,
                   prev, parsed, checked>>

\* validate-yaml.py, lines 64-68
YamlExit ==
    /\ tool = "yaml" /\ pc = "done"
    /\ exit_code' = IF result = "pass" THEN <<0>> ELSE <<1>>
    /\ pc' = "exited"
    /\ UNCHANGED <<tool, doc, argv, all_ok, errors, warnings, commands, idx, printed, result,
                   prev, parsed, checked>>

\* validate-autoinstall.py, lines 249-253: sys.exit(0 if all_ok else 1), and
\* sys.exit(1) of the except branch
AutoSysExit ==
    /\ tool = "autoinstall" /\ pc = "done"
    /\ exit_code' = IF result = "pass" THEN <<0>> ELSE <<1>>
    /\ pc' = "exited"
    /\ UNCHANGED <<tool, doc, argv, all_ok, errors, warnings, commands, idx, printed, result,
                   prev, parsed, checked>>

\* the validation is started again on the unchanged file
Rerun ==
    /\ pc = "exited"
    /\ prev' = Outcome
    /\ pc' = "start"
    /\ exit_code' = <<>>
    /\ UNCHANGED <<tool, doc, argv, all_ok, errors, warnings, commands, idx, printed, result,
                   parsed, checked>>

Init ==
    /\ \/ \E in \in Inputs : tool = in[1] /\ doc = in[2] /\ argv = <<"f.yml">>
       \/ \E in \in NoPathInputs : tool = in[1] /\ doc = in[2] /\ argv = <<>>
    /\ exit_code = <<>>
    /\ pc = "start"
    /\ errors = <<>> /\ warnings = <<>> /\ commands = <<>> /\ idx = 1
    /\ printed = <<>> /\ result = "none" /\ prev = NoRun
    /\ parsed = FALSE /\ checked = <<>> /\ all_ok = TRUE

Next ==
    \/ CmdOpen \/ CmdExtract \/ CmdValidate \/ CmdReport
    \/ StrictLoad \/ StrictTopLevel \/ StrictVersion \/ StrictSource
    \/ StrictLateCommands \/ StrictPackages \/ StrictStorage \/ StrictIdentity
    \/ StrictReport
    \/ S10Load \/ S10Validate \/ S10Report
    \/ YamlLoad \/ YamlStructure
    \/ AutoLoad \/ AutoVersion \/ AutoRequirements \/ AutoExit
    \/ CmdUsage \/ CmdExit \/ StrictUsage \/ StrictExit
    \/ S10Exit \/ YamlExit \/ AutoSysExit
    \/ Rerun

Spec == Init /\ [][Next]_vars

(***************************************************************************)
(* The properties.  A run is over when pc = "done"; errors, warnings,      *)
(* printed and result are then what the run leaves.                        *)
(***************************************************************************)
\* the number of findings of errs that are among msgs
CountOf(errs, msgs) == Cardinality({n \in 1..Len(errs) : errs[n] \in msgs})

\* the file is read and parsed, and its first line is the header
Loaded(d) == d.file = "ok" /\ d.yaml = "ok" /\ d.firstLine = s_cloud_config

\* the document is a mapping whose only top-level key is 'autoinstall'
HasSection(d) ==
    /\ Loaded(d) /\ d.data.t = "dict" /\ DOMAIN d.data.v = {k_autoinstall}
    /\ d.data.v[k_autoinstall].t = "dict"

\* the only entry of the run is the command text c
OnlyEntry(c) == commands = <<<<"late-command", c>>>>

\* C1: in validate-commands.py and validate-step10-tpm-early.py a finished
\* run passes if and only if its errors list is empty; warnings, however
\* many, do not make it fail.
C1_PassIffNoErrors ==
    pc = "done" /\ tool \in {"commands", "step10"} =>
        /\ result \in {"pass", "fail"}
        /\ result = "pass" <=> errors = <<>>

\* a finished run of validate-commands.py that has warnings, no error, and
\* passes
C1_Witness ==
    /\ pc = "done" /\ tool = "commands"
    /\ warnings # <<>> /\ errors = <<>> /\ result = "pass"

\* C2: when the first line of the file is not the header, the run fails and
\* nothing else is done: the YAML is not parsed, no command is extracted or
\* validated, and no other finding is made.
C2_HeaderStops ==
    pc = "done" /\ tool \in {"strict", "commands", "yaml"}
    /\ doc.file = "ok" /\ FirstLineWrong(doc) =>
        /\ result = "fail"
        /\ ~parsed
        /\ commands = <<>> /\ checked = <<>>
        /\ \A n \in 1..Len(errors) : errors[n] = E_NoHeader

\* the document is empty or a mapping without the key 'autoinstall'
LacksAutoinstall(d) ==
    ~Truthy(d.data) \/ (d.data.t = "dict" /\ k_autoinstall \notin DOMAIN d.data.v)

\* C3: when the document parses but is empty or has no top-level
\* 'autoinstall' key, the run fails and validates nothing.
C3_NoAutoinstallFails ==
    pc = "done" /\ tool \in {"strict", "commands", "step10"}
    /\ Loaded(doc) /\ LacksAutoinstall(doc) =>
        result = "fail" /\ checked = <<>>

\* the entries that invoke systemd-cryptenroll with a --key-file option:
\* any wrapper, any tokens before the invocation, any arguments
KeyFileEntries ==
    {Wrap(w, Join(h \o a)) :
        w \in Wrappers,
        h \in {h \in Heads : h[Len(h)] = s_systemd_cryptenroll},
        a \in {a \in ArgSeqs : \E i \in 1..Len(a) : StartsWith(a[i], s_key_file)}}

\* the --key-file error of either command validator, at the first entry
KeyFileErrors ==
    {E_KeyFile, "Line ~140: systemd-cryptenroll does not support --key-file option"}

\* C4: every entry that invokes systemd-cryptenroll with a --key-file
\* option gets the --key-file Error, whatever the wrapper and whatever
\* tokens stand before or after the invocation.
C4_KeyFileAlwaysFlagged ==
    pc = "done" /\ tool \in {"commands", "step10"} =>
        \A c \in KeyFileEntries : OnlyEntry(c) => CountOf(errors, KeyFileErrors) >= 1

\* the storage section of the document is a mapping whose 'config' is a
\* sequence of mappings
HasItems(d) ==
    /\ HasSection(d) /\ k_storage \in DOMAIN Section(d).v
    /\ Section(d).v[k_storage].t = "dict"
    /\ k_config \in DOMAIN Section(d).v[k_storage].v
    /\ Section(d).v[k_storage].v[k_config].t = "list"
    /\ \A i \in 1..Len(Section(d).v[k_storage].v[k_config].v) :
          Section(d).v[k_storage].v[k_config].v[i].t = "dict"

\* the items of storage['config'] of the document, none when it has no
\* such storage section
StorageItems(d) ==
    IF HasItems(d) THEN Section(d).v[k_storage].v[k_config].v ELSE <<>>

\* the item at position i has the id of an earlier item
RepeatsId(items, i) ==
    /\ k_id \in DOMAIN items[i].v
    /\ \E j \in 1..(i - 1) : k_id \in DOMAIN items[j].v /\ items[j].v[k_id] = items[i].v[k_id]

\* the duplicate-id Errors that name position i
DuplicateErrors(items, i) ==
    {"Storage config " \o ToString(i) \o ": Duplicate ID '" \o Text(items[j].v[k_id].v) \o "'" :
        j \in {j \in 1..Len(items) : k_id \in DOMAIN items[j].v}}

\* C5: validate_storage makes exactly one duplicate-id Error, naming the
\* position, for each item whose id is the id of an earlier item, and none
\* for an item whose id is not.
C5_OneErrorPerDuplicate ==
    pc = "done" /\ tool = "strict" =>
        \A i \in 1..Len(StorageItems(doc)) :
            CountOf(errors, DuplicateErrors(StorageItems(doc), i))
                = IF RepeatsId(StorageItems(doc), i) THEN 1 ELSE 0

\* the id values of the collection
IdValues(items) == {items[j].v[k_id] : j \in {j \in 1..Len(items) : k_id \in DOMAIN items[j].v}}

\* the reference keys of the item at position i whose value is no id of the
\* collection
Unresolved(items, i) ==
    {k \in {k_device, k_volume} : k \in DOMAIN items[i].v /\ items[i].v[k] \notin IdValues(items)}

\* the unresolved-reference Errors that name position i
ReferenceErrors(items, i) ==
    {"Storage config " \o ToString(i) \o ": References undefined " \o Text(k) \o " '"
         \o Text(items[i].v[k].v) \o "'" :
        k \in {k \in {k_device, k_volume} : k \in DOMAIN items[i].v}}

\* C6: validate_storage makes exactly one unresolved-reference Error for
\* each item with a 'device' or 'volume' value that is no id of the
\* collection; for Example 5 that is one Error in all, for part2.
C6_OneErrorPerUnresolvedItem ==
    pc = "done" /\ tool = "strict" =>
        /\ \A i \in 1..Len(StorageItems(doc)) :
              Unresolved(StorageItems(doc), i) # {}
              => CountOf(errors, ReferenceErrors(StorageItems(doc), i)) = 1
        /\ StorageItems(doc) = Example5
           => errors = <<"Storage config 3: References undefined device 'missing0'">>

\* C7: a second run on the unchanged file leaves the same errors, the same
\* warnings, in the same order, and the same result as the first.
C7_SecondRunSame ==
    pc = "done" /\ prev.result # "none" => Outcome = prev

\* a second run of validate-commands.py is over, and the first had errors
C7_Witness ==
    /\ pc = "done" /\ tool = "commands"
    /\ prev.result = "fail" /\ prev.errors # <<>>
    /\ errors = prev.errors

\* the version of the installer section is missing or is not the integer 1
VersionWrong(d) ==
    \/ k_version \notin DOMAIN Section(d).v
    \/ ~(Section(d).v[k_version].t = "int" /\ Section(d).v[k_version].v = 1)

\* the findings about the version: those of validate-autoinstall-strict.py
\* in errors, that of validate-autoinstall.py in printed
VersionFindings(d) ==
    IF k_version \notin DOMAIN Section(d).v
    THEN {"Missing required 'version' field", "Missing 'version' field"}
    ELSE {"Invalid version: " \o Show(Section(d).v[k_version]) \o " (must be 1)"}

\* C8: a document whose installer section has no version, or a version
\* that is not the integer 1, gets a version Error ("Missing required
\* 'version' field" from the strict validator when the key is absent) and
\* fails; a version that is the integer 1 gets no version Error.
C8_VersionMustBeOne ==
    pc = "done" /\ tool \in {"strict", "autoinstall"} /\ HasSection(doc) =>
        IF VersionWrong(doc)
        THEN /\ result = "fail"
             /\ CountOf(errors \o printed, VersionFindings(doc)) >= 1
        ELSE CountOf(errors \o printed, VersionFindings(doc)) = 0

\* a token that names a device for systemd-cryptenroll
DeviceToken(part) == StartsWith(part, s_dev) \/ StartsWith(part, <<"$">>)

\* the systemd-cryptenroll commands under every wrapper, each with its
\* arguments: <<entry, arguments>>
CryptenrollEntries ==
    {<<Wrap(w, Join(<<s_systemd_cryptenroll>> \o a)), a>> : w \in Wrappers, a \in ArgSeqs}

\* C9 as the specification states it: a systemd-cryptenroll command gets
\* the missing-device Error exactly when none of its tokens starts with
\* '/dev/' or '$'.
C9_Original ==
    pc = "done" /\ tool = "commands" /\ Loaded(doc) =>
        \A e \in CryptenrollEntries :
            OnlyEntry(e[1])
            => (CountOf(errors, {E_NoDevice}) >= 1
                    <=> ~\E i \in 1..Len(e[2]) : DeviceToken(e[2][i]))

\* C9: a systemd-cryptenroll command gets the missing-device Error exactly
\* when none of its tokens starts with '/dev/' or '$' and none holds
\* '--tpm2-device=list'; the command of Example 2 gets the --key-file Error
\* and no missing-device Error.
C9_MissingDevice ==
    pc = "done" /\ tool = "commands" /\ Loaded(doc) =>
        /\ \A e \in CryptenrollEntries :
              OnlyEntry(e[1])
              => (CountOf(errors, {E_NoDevice}) >= 1
                      <=> /\ ~\E i \in 1..Len(e[2]) : DeviceToken(e[2][i])
                          /\ ~\E i \in 1..Len(e[2]) : Contains(e[2][i], s_tpm2_device_list))
        /\ OnlyEntry(Example2) => errors = <<E_KeyFile>>

\* a run on a systemd-cryptenroll command without a device token: the
\* missing-device Error is there
C9_Witness ==
    /\ pc = "done" /\ tool = "commands" /\ Loaded(doc)
    /\ OnlyEntry(Join(<<s_systemd_cryptenroll, w_key_file_k>>))
    /\ errors = <<E_KeyFile, E_NoDevice>>

\* the 'cryptsetup luksAddKey' commands under every wrapper, each with its
\* arguments: <<entry, arguments>>
AddKeyEntries ==
    {<<Wrap(w, Join(<<s_cryptsetup, s_luksAddKey>> \o a)), a>> : w \in Wrappers, a \in ArgSeqs}

\* the positions of a in which a device path, a key file path stands
DevicePositions(a) == {i \in 1..Len(a) : StartsWith(a[i], s_dev)}
KeyfilePositions(a) ==
    {i \in 1..Len(a) : StartsWith(a[i], <<"/">>) /\ ~StartsWith(a[i], s_dev)}

C11_KeyFileDashFlagged ==
    pc = "done" /\ tool = "commands" /\ Loaded(doc) =>
        /\ \A e \in AddKeyEntries :
              OnlyEntry(e[1])
              => (CountOf(errors, {E_KeyFileDash}) = 1
                      <=> \E i \in 1..Len(e[2]) : Contains(e[2][i], s_key_file_dash))
        /\ OnlyEntry(Example4) => errors = <<E_Order, E_KeyFileDash>>

\* a run on the command of Example 4: the order Error and the '--key-file=-'
\* Error
C11_Witness ==
    /\ pc = "done" /\ tool = "commands" /\ Loaded(doc)
    /\ OnlyEntry(Example4)
    /\ errors = <<E_Order, E_KeyFileDash>> /\ result = "fail"

\* C12: the process exits with 0 when the validation passes and with 1 when
\* it fails, and a run without an input path ends in a usage exit whose
\* code is neither of the two.
C12_ExitCodes ==
    pc = "exited" /\ tool \in {"strict", "commands", "autoinstall"} =>
        /\ result = "pass" => exit_code = <<0>>
        /\ result = "fail" => exit_code = <<1>>
        /\ argv = <<>> => result = "usage" /\ exit_code \notin {<<0>>, <<1>>}

\* C13: whatever the types of the nested values of a parsed document, the
\* validator functions raise nothing: validate-autoinstall-strict.py does
\* not end in a traceback, and validate_autoinstall does not leave by an
\* exception that its caller has to catch.
C13_NoUnhandledFailure ==
    pc = "done" /\ tool \in {"strict", "autoinstall"} /\ Loaded(doc) =>
        /\ result \in {"pass", "fail"}
        /\ \A n \in 1..Len(printed) : printed[n] # "Validation failed"

\* the Errors of the six sections of an installer section, each section
\* checked by itself, in the order of validate_autoinstall_strict
StrictFindings(d) ==
    LET S == Section(d)
        Of(k) == S.v[k]
    IN  VersionErrors(S) \o SourceErrors(S)
        \o (IF k_late_commands \in DOMAIN S.v THEN validate_late_commands(Of(k_late_commands)).errs
            ELSE <<>>)
        \o (IF k_packages \in DOMAIN S.v THEN validate_packages(Of(k_packages)) ELSE <<>>)
        \o (IF k_storage \in DOMAIN S.v THEN validate_storage(Of(k_storage)).errs ELSE <<>>)
        \o (IF k_identity \in DOMAIN S.v THEN IdentityErrors(Of(k_identity)) ELSE <<>>)

\* the Errors of the entries from the i-th on, each entry validated by
\* itself
RECURSIVE EntriesErrors(_, _)
EntriesErrors(cmds, i) ==
    IF i > Len(cmds) THEN <<>>
    ELSE validate_command(NewValidator, cmds[i][2]).errors \o EntriesErrors(cmds, i + 1)

\* C14: an Error does not end the run.  The strict validator checks all six
\* sections and leaves the Errors of every one of them; the command
\* validator validates every extracted entry and leaves the Errors of every
\* one of them; and a run that leaves an Error fails.
C14_ErrorsAccumulate ==
    /\ pc = "done" /\ tool = "strict" /\ HasSection(doc) /\ result # "crash" =>
          /\ errors = StrictFindings(doc)
          /\ errors # <<>> => result = "fail"
    /\ pc = "done" /\ tool = "commands" /\ Loaded(doc) =>
          /\ checked = [i \in 1..Len(commands) |-> i]
          /\ errors = (IF extract_commands_from_yaml(doc).raised THEN <<E_ParseYaml>> ELSE <<>>)
                      \o EntriesErrors(commands, 1)
          /\ errors # <<>> => result = "fail"
    /\ pc = "done" /\ tool = "yaml" /\ printed # <<>> => result = "fail"

\* a run of the strict validator on the section with a violation in all six
\* sections: the Errors of all six are there
C14_Witness ==
    /\ pc = "done" /\ tool = "strict" /\ result = "fail"
    /\ doc = AutoinstallFile(BadParts @@ BaseSection)
    /\ errors = <<"Invalid version: 2 (must be 1)",
                  "Source missing required 'id' field",
                  "Late command 1: Must be a string, got int",
                  "Package 1: Must be a string, got int",
                  "Storage config 1: Missing 'type' field",
                  "Identity missing required field: username",
                  "Identity missing required field: password">>

\* the entries of the late-commands sequence and of the runcmd sequence of
\* the document, in this order; none when the document has no such sequence
EntryValues(d) ==
    IF ~HasSection(d) THEN <<>>
    ELSE LET S == Section(d).v
             late == IF k_late_commands \in DOMAIN S /\ S[k_late_commands].t = "list"
                     THEN S[k_late_commands].v ELSE <<>>
             run == IF k_user_data \in DOMAIN S /\ S[k_user_data].t = "dict"
                       /\ k_runcmd \in DOMAIN S[k_user_data].v
                       /\ S[k_user_data].v[k_runcmd].t = "list"
                    THEN S[k_user_data].v[k_runcmd].v ELSE <<>>
         IN  late \o run

\* the positions of the entries that are no strings
NonStrings(d) == {i \in 1..Len(EntryValues(d)) : EntryValues(d)[i].t # "str"}

\* the texts of the entries that are strings, in their order
StringEntries(d) ==
    LET es == SelectSeq(EntryValues(d), LAMBDA e : e.t = "str")
    IN  [i \in 1..Len(es) |-> es[i].v]

\* the Warnings of the entries from the i-th on, each entry validated by
\* itself
RECURSIVE EntriesWarnings(_, _)
EntriesWarnings(cmds, i) ==
    IF i > Len(cmds) THEN <<>>
    ELSE validate_command(NewValidator, cmds[i][2]).warnings \o EntriesWarnings(cmds, i + 1)

\* the Errors of the strict validator about an entry that is no string
NotStringErrors ==
    {"Late command " \o ToString(i) \o ": Must be a string, got " \o ty :
        i \in 1..3, ty \in {"int", "bool", "NoneType", "list", "dict"}}

\* C15: an entry of late-commands or runcmd that is no string is reported
\* as a Warning and skipped: there is one Warning for it, no Error, the run
\* does not fail because of it, and the string entries are still extracted
\* and checked in their order.
C15_NonStringWarned ==
    pc = "done" /\ tool \in {"commands", "strict"} /\ HasSection(doc)
    /\ NonStrings(doc) # {} /\ result # "crash" =>
        /\ CountOf(errors, NotStringErrors) = 0
        /\ tool = "commands" =>
              /\ [i \in 1..Len(commands) |-> commands[i][2]] = StringEntries(doc)
              /\ checked = [i \in 1..Len(commands) |-> i]
              /\ Len(warnings)
                   = Len(EntriesWarnings(commands, 1)) + Cardinality(NonStrings(doc))
        /\ tool = "strict" => Len(warnings) = Cardinality(NonStrings(doc))

\* the unresolved-reference Error that names position i and the key k
ReferenceError(items, i, k) ==
    "Storage config " \o ToString(i) \o ": References undefined " \o Text(k) \o " '"
        \o Text(items[i].v[k].v) \o "'"

\* C16: a 'device' or 'volume' whose value is the id of an item of the same
\* sequence gets no unresolved-reference Error, wherever the item with that
\* id stands and whether or not it has a 'type'.
C16_AnyPositionResolves ==
    pc = "done" /\ tool = "strict" =>
        \A i \in 1..Len(StorageItems(doc)) :
            \A k \in {k_device, k_volume} :
                /\ k \in DOMAIN StorageItems(doc)[i].v
                /\ StorageItems(doc)[i].v[k] \in IdValues(StorageItems(doc))
                => CountOf(errors, {ReferenceError(StorageItems(doc), i, k)}) = 0

\* what the checks for a plain command find in the text c: those of
\* validate-commands.py after the 'curtin in-target --' prefix is taken off,
\* those of validate-step10-tpm-early.py likewise
PlainFindings(t, c) ==
    IF t = "commands" THEN validate_specific_command(NewValidator, ActualCmd(c))
    ELSE s10_check_command_syntax(
             s10_NewValidator,
             IF StartsWith(c, s_curtin) THEN Strip(SubSeq(c, 20, Len(c))) ELSE c,
             "Line ~140: ")

\* C17: an entry of the form 'bash -c' whose quoted payload cannot be
\* extracted does not end the run in an exception, gets the findings of
\* the checks for a plain command on its unchanged text, and one Warning
\* more for the wrapper.
C17_UnparseableWrapperWarned ==
    pc = "done" /\ tool \in {"commands", "step10"} /\ Loaded(doc) =>
        \A c \in Unparseable :
            OnlyEntry(c) =>
                /\ result \in {"pass", "fail"}
                /\ errors = PlainFindings(tool, c).errors
                /\ Len(warnings) = Len(PlainFindings(tool, c).warnings) + 1

\* the invocations of TpmFiles, each with its arguments: <<entry, arguments>>
TpmEntries ==
    {<<Wrap("curtin-bash", Join(<<s_systemd_cryptenroll>> \o a)), a>> : a \in TpmArgSeqs}

\* a --tpm2-device option whose value is not exactly auto or list
BadTpmDevice(part) ==
    /\ StartsWith(part, s_tpm2_device)
    /\ part \notin {s_tpm2_device_auto, s_tpm2_device_list}

\* C18: check_systemd_cryptenroll makes the --tpm2-device Error for an
\* invocation exactly when it has a --tpm2-device option whose value is not
\* exactly 'auto' or 'list' (no value, or another value).
C18_TpmDeviceValue ==
    pc = "done" /\ tool = "step10" /\ Loaded(doc) =>
        \A e \in TpmEntries :
            OnlyEntry(e[1])
            => (CountOf(errors, {"Line ~140: --tpm2-device requires =auto or =list"}) >= 1
                    <=> \E i \in 1..Len(e[2]) : BadTpmDevice(e[2][i]))

\* the lines of OperatorLines, each with its wrapped entries: <<entry, line>>
WrappedLines == {<<Wrap(w, l), l>> : w \in Wrappers, l \in OperatorLines}

\* the line ends with && or || and nothing follows
TrailingOperator(line) == EndsWith(Strip(line), s_and) \/ EndsWith(Strip(line), s_or)

\* C19: a command line that ends with '&&' or '||' with nothing following
\* gets the trailing-operator Error from validate-commands.py and the run
\* fails; a line whose last operator is followed by a command gets no such
\* Error.
C19_TrailingOperator ==
    pc = "done" /\ tool = "commands" /\ Loaded(doc) =>
        \A e \in WrappedLines :
            OnlyEntry(e[1])
            => IF TrailingOperator(e[2])
               THEN CountOf(errors, {E_TrailingAnd}) >= 1 /\ result = "fail"
               ELSE CountOf(errors, {E_TrailingAnd}) = 0

\* the texts check_command_syntax is given, each with its entry:
\* <<entry, text>>; the line itself when the entry is plain or follows
\* 'curtin in-target --', the whole entry when it is a bare 'bash -c'
CheckedLines ==
    {<<Wrap(w, l), l>> : w \in {"none", "curtin"}, l \in OperatorLines}
    \cup {<<Wrap("bash", l), Wrap("bash", l)>> : l \in OperatorLines}

\* an && or || that has no whitespace before it or none after it
UnspacedOperator(line) ==
    \E i \in 1..Len(line) :
        /\ MatchAt(line, i, s_and) \/ MatchAt(line, i, s_or)
        /\ ~(/\ i > 1 /\ line[i - 1] \in Whitespace
             /\ i + 2 <= Len(line) /\ line[i + 2] \in Whitespace)

\* C20: check_command_syntax makes the spacing Warning for a line exactly
\* when the line has an '&&' or '||' without whitespace on both sides, also
\* when another operator of the line is spaced.
C20_UnspacedOperatorWarned ==
    pc = "done" /\ tool = "step10" /\ Loaded(doc) =>
        \A e \in CheckedLines :
            OnlyEntry(e[1])
            => (CountOf(warnings,
                        {"Line ~140: Operators || and && should have spaces around them"}) >= 1
                    <=> UnspacedOperator(e[2]))

\* validate_specific_command calls itself on this command: the branch
\* `elif cmd == 'echo' and '|' in command` is taken and pipe_parts has more
\* than one element
Reenters(command) ==
    LET sp == ShlexSplit(command)
    IN  /\ sp.ok /\ sp.parts # <<>>
        /\ sp.parts[1] \notin {s_systemd_cryptenroll, s_cryptsetup}
        /\ ~(sp.parts[1] = s_apt_get /\ Len(sp.parts) > 2 /\ sp.parts[2] = s_install)
        /\ sp.parts[1] = s_echo /\ Contains(command, <<"|">>)
        /\ Len(Split(command, <<"|">>)) > 1

\* the number of nested calls validate_specific_command makes on a command
RECURSIVE SpecificDepth(_)
SpecificDepth(command) ==
    IF Reenters(command) THEN 1 + SpecificDepth(NextCmd(command)) ELSE 0

\* the texts validate_command gives to validate_specific_command for an entry
SpecificCalls(command) ==
    IF StartsWith(Strip(command), <<"#">>) THEN {}
    ELSE LET actual_cmd == ActualCmd(command)
         IN  IF Contains(actual_cmd, s_bash_c)
             THEN LET m == BashCSearch(actual_cmd)
                      lines == IF m.found THEN Split(m.group, <<"\n">>) ELSE <<>>
                  IN  {Strip(lines[i]) : i \in {j \in 1..Len(lines) :
                          Strip(lines[j]) # <<>> /\ ~StartsWith(Strip(lines[j]), <<"#">>)}}
             ELSE {actual_cmd}

\* every entry validated so far made at most one nested call, on a segment
\* without '|'
DepthAtMostOne ==
    tool = "commands" =>
        \A i \in 1..Len(checked) :
            \A c \in SpecificCalls(commands[checked[i]][2]) :
                /\ SpecificDepth(c) <= 1
                /\ Reenters(c) => ~Contains(NextCmd(c), <<"|">>)

\* the guard of CmdValidate; a CmdValidate step always changes idx and
\* checked, so this is ENABLED <<CmdValidate>>_vars
CmdValidateEnabled == tool = "commands" /\ pc = "validate" /\ idx <= Len(commands)

\* the run of validate-commands.py is scheduled until it ends (one thread,
\* no blocking call): weak fairness of each step of
\* validate_autoinstall_commands, that of CmdValidate written out with its
\* guard, WF_vars(A) being []<>~ENABLED <<A>>_vars \/ []<><<A>>_vars
FairSpec ==
    /\ Spec
    /\ WF_vars(CmdExtract) /\ WF_vars(CmdReport)
    /\ ([]<>~CmdValidateEnabled \/ []<><<CmdValidate>>_vars)

\* C21: validate_specific_command re-enters itself at most once per command,
\* on the segment between the first and the second '|', which has no '|';
\* and every run of validate-commands.py that has extracted its command list
\* reaches the end of the reporting step.
C21_SpecificCommandTerminates ==
    /\ []DepthAtMostOne
    /\ (tool = "commands" /\ pc \in {"extract", "validate"})
           ~> (tool = "commands" /\ pc = "done")

\* a finished run whose only entry is 'echo a | echo b | systemd-cryptenroll
\* --key-file=k /dev/sda3': one nested call, on 'echo b', and no finding
C21_Witness ==
    /\ pc = "done" /\ tool = "commands" /\ Loaded(doc)
    /\ OnlyEntry(w_echo_a \o <<"|">> \o w_echo_b \o <<"|", " ">> \o BadCommand)
    /\ checked = <<1>>
    /\ SpecificDepth(commands[1][2]) = 1
    /\ NextCmd(commands[1][2]) = s_echo \o <<" ", "b">>
    /\ errors = <<>> /\ result = "pass"
====
